---- MODULE Spec2Model ----
(***************************************************************************)
(* The course search, ranking and caching pipeline of                      *)
(* RealCourseSearchAgent (src/Փորձագիտական_(ագենտներ).py), with the        *)
(* decision-tree and GUI layers left to their own sections.                *)
(*                                                                         *)
(* Text is a sequence of one-character strings, so that lower(), the `in`  *)
(* substring test, split(), title() and the regular expressions of         *)
(* _clean_title are computed character by character.  Numbers with         *)
(* decimals are integers in a fixed unit: ratings in tenths, scores in     *)
(* hundredths, the unrounded score in 1/50000.  The clock counts days.     *)
(***************************************************************************)
EXTENDS Integers, Sequences, FiniteSets, TLC

VARIABLES
    now,            \* datetime.now(), in days since the process started
    hashSeed,       \* the process's string-hash seed: fixes the order of list(set(...))
    course_cache,   \* self.course_cache: cache_key -> [courses, timestamp]
    pc,             \* where the one caller of search_courses stands
    career,         \* argument of the call in progress (or of the last call)
    user_level,     \* argument of the call in progress (or of the last call)
    search_terms,   \* local search_terms of _search_youtube or _search_github
    termIdx,        \* index of the search term of the provider loop in progress
    courses,        \* local courses of _search_youtube or _search_github
    all_courses,    \* local all_courses of search_courses
    ranked_courses, \* local ranked_courses of search_courses
    result,         \* the list the last call returned
    log,            \* what the call in progress (or the last call) did, in order
    searches,       \* number of calls of search_courses started so far
    current_node,   \* the node the assessment stands on
    navigated,      \* the last call of navigate_tree: its arguments and what it returned
    entry,          \* the text in self.entry
    user_skills,    \* self.user_skills: skill name -> rating, in hundredths
    recommended_career, \* self.recommended_career, "None" for None
    screen,         \* the frame the window shows: "question", "loading" or "results"
    dialog,         \* the title of the last messagebox shown, "" if none was
    thread,         \* the background thread of the window
    after_queue,    \* the callbacks given to root.after that the main loop has not run yet
    calls           \* the concurrent callers of search_courses: where each stands

\* the state of the window
appVars == <<entry, user_skills, recommended_career, screen, dialog, thread, after_queue>>

\* the state outside the sequential caller of search_courses: the assessment, the
\* window that runs it, the concurrent callers
treeVars == <<current_node, navigated, appVars, calls>>

\* the state of the course search
searchVars == <<now, hashSeed, course_cache, pc, career, user_level, search_terms, termIdx,
                courses, all_courses, ranked_courses, result, log, searches>>

vars == <<searchVars, treeVars>>

----------------------------------------------------------------------------
(* Bounds of the model. *)

MaxTime == 9

MaxSearches == 2

MaxHashSeed == 1

MaxPool == 21

----------------------------------------------------------------------------
(* Text. *)

UpperChars ==
    <<"A","B","C","D","E","F","G","H","I","J","K","L","M","N","O","P","Q","R","S","T","U","V","W","X","Y","Z">>

LowerChars ==
    <<"a","b","c","d","e","f","g","h","i","j","k","l","m","n","o","p","q","r","s","t","u","v","w","x","y","z">>

DigitChars ==
    <<"0","1","2","3","4","5","6","7","8","9">>

SpaceChars ==
    <<" ", "\t", "\n">>

Range(s) == {s[i] : i \in 1..Len(s)}

UpperSet == Range(UpperChars)

LowerSet == Range(LowerChars)

DigitSet == Range(DigitChars)

SpaceSet == Range(SpaceChars)

ToLower == [c \in UpperSet |-> LowerChars[CHOOSE i \in 1..Len(UpperChars) : UpperChars[i] = c]]

ToUpper == [c \in LowerSet |-> UpperChars[CHOOSE i \in 1..Len(LowerChars) : LowerChars[i] = c]]

InSeq(x, s) == \E i \in 1..Len(s) : s[i] = x

IsAlpha(c) == c \in UpperSet \/ c \in LowerSet

\* \w of a str pattern: letters, digits and the underscore.
IsWordChar(c) == IsAlpha(c) \/ c \in DigitSet \/ c = "_"

\* \s
IsSpaceChar(c) == c \in SpaceSet

LowerChar(c) == IF c \in UpperSet THEN ToLower[c] ELSE c

UpperChar(c) == IF c \in LowerSet THEN ToUpper[c] ELSE c


\* a function on 1..n as the tuple of its values
AsTuple(f) == SubSeq(f, 1, Len(f))

\* str.lower()
Lower(s) == AsTuple([i \in 1..Len(s) |-> LowerChar(s[i])])

\* str.title(): the first letter of every run of letters in upper case, the rest in lower case
TitleCase(s) ==
    AsTuple([i \in 1..Len(s) |->
                IF i = 1 \/ ~IsAlpha(s[IF i = 1 THEN 1 ELSE i - 1])
                THEN UpperChar(s[i])
                ELSE LowerChar(s[i])])

\* sub in s
Contains(sub, s) ==
    \E i \in 0..(Len(s) - Len(sub)) : SubSeq(s, i + 1, i + Len(sub)) = sub

\* str.strip()
RECURSIVE LStrip(_)
LStrip(s) ==
    IF s # <<>> /\ IsSpaceChar(Head(s)) THEN LStrip(Tail(s)) ELSE s

RECURSIVE RStrip(_)
RStrip(s) ==
    IF s # <<>> /\ IsSpaceChar(s[Len(s)]) THEN RStrip(SubSeq(s, 1, Len(s) - 1)) ELSE s

Strip(s) == RStrip(LStrip(s))

\* str.split() without arguments: the maximal runs of non-whitespace characters
RECURSIVE SplitFrom(_, _, _)
SplitFrom(s, word, words) ==
    IF s = <<>>
    THEN IF word = <<>> THEN words ELSE Append(words, word)
    ELSE IF IsSpaceChar(Head(s))
         THEN SplitFrom(Tail(s), <<>>, IF word = <<>> THEN words ELSE Append(words, word))
         ELSE SplitFrom(Tail(s), Append(word, Head(s)), words)

Split(s) == SplitFrom(s, <<>>, <<>>)

\* re.sub(r'[^\w\s]', ' ', title)
ReplaceSpecial(s) ==
    AsTuple([i \in 1..Len(s) |-> IF IsWordChar(s[i]) \/ IsSpaceChar(s[i]) THEN s[i] ELSE " "])

\* re.sub(r'\s+', ' ', cleaned)
RECURSIVE CollapseSpaces(_)
CollapseSpaces(s) ==
    IF s = <<>> THEN <<>>
    ELSE IF IsSpaceChar(Head(s))
         THEN <<" ">> \o CollapseSpaces(LStrip(s))
         ELSE <<Head(s)>> \o CollapseSpaces(Tail(s))

_clean_title(title) == Strip(CollapseSpaces(ReplaceSpecial(title)))

----------------------------------------------------------------------------
(* Query building: _get_search_terms. *)

\* the dict career_keywords
career_keywords ==
    \* "Data Scientist": "data science", "machine learning", "python data analysis", "artificial intelligence"
    <<"D","a","t","a"," ","S","c","i","e","n","t","i","s","t">>:>
        <<<<"d","a","t","a"," ","s","c","i","e","n","c","e">>,
          <<"m","a","c","h","i","n","e"," ","l","e","a","r","n","i","n","g">>,
          <<"p","y","t","h","o","n"," ","d","a","t","a"," ","a","n","a","l","y","s","i","s">>,
          <<"a","r","t","i","f","i","c","i","a","l"," ","i","n","t","e","l","l","i","g","e","n","c","e">>>> @@
    \* "Software Engineer": "programming", "web development", "python programming", "javascript tutorial"
    <<"S","o","f","t","w","a","r","e"," ","E","n","g","i","n","e","e","r">>:>
        <<<<"p","r","o","g","r","a","m","m","i","n","g">>,
          <<"w","e","b"," ","d","e","v","e","l","o","p","m","e","n","t">>,
          <<"p","y","t","h","o","n"," ","p","r","o","g","r","a","m","m","i","n","g">>,
          <<"j","a","v","a","s","c","r","i","p","t"," ","t","u","t","o","r","i","a","l">>>> @@
    \* "UI/UX Designer": "ui design", "ux design", "user experience", "figma tutorial"
    <<"U","I","/","U","X"," ","D","e","s","i","g","n","e","r">>:>
        <<<<"u","i"," ","d","e","s","i","g","n">>,
          <<"u","x"," ","d","e","s","i","g","n">>,
          <<"u","s","e","r"," ","e","x","p","e","r","i","e","n","c","e">>,
          <<"f","i","g","m","a"," ","t","u","t","o","r","i","a","l">>>> @@
    \* "Graphic Designer": "graphic design", "photoshop tutorial", "illustrator course", "digital design"
    <<"G","r","a","p","h","i","c"," ","D","e","s","i","g","n","e","r">>:>
        <<<<"g","r","a","p","h","i","c"," ","d","e","s","i","g","n">>,
          <<"p","h","o","t","o","s","h","o","p"," ","t","u","t","o","r","i","a","l">>,
          <<"i","l","l","u","s","t","r","a","t","o","r"," ","c","o","u","r","s","e">>,
          <<"d","i","g","i","t","a","l"," ","d","e","s","i","g","n">>>> @@
    \* "Project Manager": "project management", "agile methodology", "scrum master", "leadership skills"
    <<"P","r","o","j","e","c","t"," ","M","a","n","a","g","e","r">>:>
        <<<<"p","r","o","j","e","c","t"," ","m","a","n","a","g","e","m","e","n","t">>,
          <<"a","g","i","l","e"," ","m","e","t","h","o","d","o","l","o","g","y">>,
          <<"s","c","r","u","m"," ","m","a","s","t","e","r">>,
          <<"l","e","a","d","e","r","s","h","i","p"," ","s","k","i","l","l","s">>>> @@
    \* "Healthcare Specialist": "healthcare", "medical education", "public health", "biology basics"
    <<"H","e","a","l","t","h","c","a","r","e"," ","S","p","e","c","i","a","l","i","s","t">>:>
        <<<<"h","e","a","l","t","h","c","a","r","e">>,
          <<"m","e","d","i","c","a","l"," ","e","d","u","c","a","t","i","o","n">>,
          <<"p","u","b","l","i","c"," ","h","e","a","l","t","h">>,
          <<"b","i","o","l","o","g","y"," ","b","a","s","i","c","s">>>> @@
    \* "Research Scientist": "research methods", "data analysis", "academic research", "scientific methods"
    <<"R","e","s","e","a","r","c","h"," ","S","c","i","e","n","t","i","s","t">>:>
        <<<<"r","e","s","e","a","r","c","h"," ","m","e","t","h","o","d","s">>,
          <<"d","a","t","a"," ","a","n","a","l","y","s","i","s">>,
          <<"a","c","a","d","e","m","i","c"," ","r","e","s","e","a","r","c","h">>,
          <<"s","c","i","e","n","t","i","f","i","c"," ","m","e","t","h","o","d","s">>>> @@
    \* "Engineer": "engineering", "mechanical engineering", "electrical engineering", "physics concepts"
    <<"E","n","g","i","n","e","e","r">>:>
        <<<<"e","n","g","i","n","e","e","r","i","n","g">>,
          <<"m","e","c","h","a","n","i","c","a","l"," ","e","n","g","i","n","e","e","r","i","n","g">>,
          <<"e","l","e","c","t","r","i","c","a","l"," ","e","n","g","i","n","e","e","r","i","n","g">>,
          <<"p","h","y","s","i","c","s"," ","c","o","n","c","e","p","t","s">>>> @@
    \* "Manager / HR Specialist": "human resources", "management skills", "leadership", "team management"
    <<"M","a","n","a","g","e","r"," ","/"," ","H","R"," ","S","p","e","c","i","a","l","i","s","t">>:>
        <<<<"h","u","m","a","n"," ","r","e","s","o","u","r","c","e","s">>,
          <<"m","a","n","a","g","e","m","e","n","t"," ","s","k","i","l","l","s">>,
          <<"l","e","a","d","e","r","s","h","i","p">>,
          <<"t","e","a","m"," ","m","a","n","a","g","e","m","e","n","t">>>> @@
    \* "Journalist / Public Speaker": "journalism", "public speaking", "communication skills", "writing skills"
    <<"J","o","u","r","n","a","l","i","s","t"," ","/"," ","P","u","b","l","i","c"," ","S","p","e","a","k","e","r">>:>
        <<<<"j","o","u","r","n","a","l","i","s","m">>,
          <<"p","u","b","l","i","c"," ","s","p","e","a","k","i","n","g">>,
          <<"c","o","m","m","u","n","i","c","a","t","i","o","n"," ","s","k","i","l","l","s">>,
          <<"w","r","i","t","i","n","g"," ","s","k","i","l","l","s">>>> @@
    \* "Technician": "technical skills", "it support", "computer repair", "hardware tutorial"
    <<"T","e","c","h","n","i","c","i","a","n">>:>
        <<<<"t","e","c","h","n","i","c","a","l"," ","s","k","i","l","l","s">>,
          <<"i","t"," ","s","u","p","p","o","r","t">>,
          <<"c","o","m","p","u","t","e","r"," ","r","e","p","a","i","r">>,
          <<"h","a","r","d","w","a","r","e"," ","t","u","t","o","r","i","a","l">>>> @@
    \* "Sales Assistant": "sales training", "marketing basics", "customer service", "communication skills"
    <<"S","a","l","e","s"," ","A","s","s","i","s","t","a","n","t">>:>
        <<<<"s","a","l","e","s"," ","t","r","a","i","n","i","n","g">>,
          <<"m","a","r","k","e","t","i","n","g"," ","b","a","s","i","c","s">>,
          <<"c","u","s","t","o","m","e","r"," ","s","e","r","v","i","c","e">>,
          <<"c","o","m","m","u","n","i","c","a","t","i","o","n"," ","s","k","i","l","l","s">>>>

\* the dict level_keywords
level_keywords ==
    \* "beginner": "beginner", "fundamentals", "basics", "introduction", "getting started"
    <<"b","e","g","i","n","n","e","r">>:>
        <<<<"b","e","g","i","n","n","e","r">>,
          <<"f","u","n","d","a","m","e","n","t","a","l","s">>,
          <<"b","a","s","i","c","s">>,
          <<"i","n","t","r","o","d","u","c","t","i","o","n">>,
          <<"g","e","t","t","i","n","g"," ","s","t","a","r","t","e","d">>>> @@
    \* "intermediate": "intermediate", "advanced", "professional", "deep dive"
    <<"i","n","t","e","r","m","e","d","i","a","t","e">>:>
        <<<<"i","n","t","e","r","m","e","d","i","a","t","e">>,
          <<"a","d","v","a","n","c","e","d">>,
          <<"p","r","o","f","e","s","s","i","o","n","a","l">>,
          <<"d","e","e","p"," ","d","i","v","e">>>> @@
    \* "advanced": "advanced", "expert", "master", "professional"
    <<"a","d","v","a","n","c","e","d">>:>
        <<<<"a","d","v","a","n","c","e","d">>,
          <<"e","x","p","e","r","t">>,
          <<"m","a","s","t","e","r">>,
          <<"p","r","o","f","e","s","s","i","o","n","a","l">>>>

Min(a, b) == IF a < b THEN a ELSE b

\* lst[:n]
Take(lst, n) == SubSeq(lst, 1, Min(n, Len(lst)))

\* the first occurrences of the elements of lst, in order
RECURSIVE Dedup(_, _)
Dedup(lst, seen) ==
    IF lst = <<>> THEN seen
    ELSE Dedup(Tail(lst), IF InSeq(Head(lst), seen) THEN seen ELSE Append(seen, Head(lst)))

Reverse(lst) == AsTuple([i \in 1..Len(lst) |-> lst[Len(lst) + 1 - i]])

Rotate(lst, k) == AsTuple([i \in 1..Len(lst) |-> lst[((i - 1 + k) % Len(lst)) + 1]])

\* list(set(lst)): the distinct elements of lst in the order the process's string
\* hashing gives them.  The order is the same for the same elements throughout one
\* process and differs between processes; seed 0 leaves insertion order, an odd seed
\* reverses, seed \div 2 rotates.
ListOfSet(lst, seed) ==
    LET d == Dedup(lst, <<>>)
        r == IF d = <<>> THEN d ELSE Rotate(d, seed \div 2)
    IN  IF seed % 2 = 1 THEN Reverse(r) ELSE r

\* dict.get(key, default)
Get(d, key, default) == IF key \in DOMAIN d THEN d[key] ELSE default

\* the combination without the base term alone
RECURSIVE CombineWithLevelOnly(_, _)
CombineWithLevelOnly(base_terms, level_terms) ==
    IF base_terms = <<>> THEN <<>>
    ELSE AsTuple([i \in 1..Len(level_terms) |-> Head(base_terms) \o <<" ">> \o level_terms[i]])
         \o CombineWithLevelOnly(Tail(base_terms), level_terms)

\* the list search_terms before deduplication: for each of the first 2 base terms,
\* the base term with the first level term, then the base term alone
RECURSIVE CombineTerms(_, _)
CombineTerms(base_terms, level_terms) ==
    IF base_terms = <<>> THEN <<>>
    ELSE AsTuple([i \in 1..Len(level_terms) |-> Head(base_terms) \o <<" ">> \o level_terms[i]])
         \o <<Head(base_terms)>>
         \o CombineTerms(Tail(base_terms), level_terms)

_get_search_terms(c, level, seed) ==
    LET base_terms  == Get(career_keywords, c, <<Lower(c)>>)
        level_terms == Get(level_keywords, level, <<>>)
    IN  ListOfSet(CombineTerms(Take(base_terms, 2), Take(level_terms, 1)), seed)

----------------------------------------------------------------------------
(* Parsing: _parse_youtube_results, _parse_github_results. *)

\* ['tutorial', 'course', 'learn', 'guide', 'introduction']
YouTubeKeywords ==
    <<<<"t","u","t","o","r","i","a","l">>,
      <<"c","o","u","r","s","e">>,
      <<"l","e","a","r","n">>,
      <<"g","u","i","d","e">>,
      <<"i","n","t","r","o","d","u","c","t","i","o","n">>>>

\* ['learn', 'tutorial', 'course', 'guide', 'examples']
GitHubKeywords ==
    <<<<"l","e","a","r","n">>,
      <<"t","u","t","o","r","i","a","l">>,
      <<"c","o","u","r","s","e">>,
      <<"g","u","i","d","e">>,
      <<"e","x","a","m","p","l","e","s">>>>

\* "beginner"
Beginner == <<"b","e","g","i","n","n","e","r">>

\* "intermediate"
Intermediate == <<"i","n","t","e","r","m","e","d","i","a","t","e">>

\* "fallback"
FallbackTerm == <<"f","a","l","l","b","a","c","k">>

\* "GitHub: "
GitHubPrefix == <<"G","i","t","H","u","b",":"," ">>

\* any(keyword in title.lower() for keyword in keywords)
HasKeyword(title, keywords) ==
    \E i \in 1..Len(keywords) : Contains(keywords[i], Lower(title))

\* The raw text of a result page is modelled by what re.findall extracts from it:
\* the list of (video id, title) or (repository path, title) pairs, in page order.
\* random.uniform and random.randint are modelled by the list of draws they make:
\* the n-th candidate built from one page takes the n-th draw.

\* one candidate of _parse_youtube_results (lines 302-315)
YouTubeCourse(match, search_term, draw) ==
    [title            |-> _clean_title(match[2]),
     url              |-> "https://www.youtube.com/watch?v=" \o match[1],
     provider         |-> "YouTube",
     level            |-> Beginner,
     rating           |-> draw.rating,
     duration         |-> ToString(draw.hours) \o " hours",
     instructors      |-> <<"YouTube Instructor">>,
     enrollment_count |-> draw.enrollment,
     price            |-> "Free",
     language         |-> "English",
     score            |-> 0,
     searched_for     |-> search_term]

YouTubeKeeps(title) == Len(title) > 15 /\ HasKeyword(title, YouTubeKeywords)

RECURSIVE ParseYouTubeFrom(_, _, _, _)
ParseYouTubeFrom(matches, search_term, draws, kept) ==
    IF matches = <<>> THEN kept
    ELSE IF YouTubeKeeps(Head(matches)[2])
         THEN ParseYouTubeFrom(Tail(matches), search_term, Tail(draws),
                               Append(kept, YouTubeCourse(Head(matches), search_term, Head(draws))))
         ELSE ParseYouTubeFrom(Tail(matches), search_term, draws, kept)

_parse_youtube_results(matches, search_term, draws) ==
    ParseYouTubeFrom(Take(matches, 3), search_term, draws, <<>>)

\* one candidate of _parse_github_results (lines 387-400)
GitHubCourse(match, search_term, draw) ==
    [title            |-> GitHubPrefix \o match[2],
     url              |-> "https://github.com" \o match[1],
     provider         |-> "GitHub",
     level            |-> Intermediate,
     rating           |-> draw.rating,
     duration         |-> "Self-paced",
     instructors      |-> <<"Open Source Community">>,
     enrollment_count |-> draw.enrollment,
     price            |-> "Free",
     language         |-> "English",
     score            |-> 0,
     searched_for     |-> search_term]

GitHubKeeps(title) == HasKeyword(title, GitHubKeywords)

RECURSIVE ParseGitHubFrom(_, _, _, _)
ParseGitHubFrom(matches, search_term, draws, kept) ==
    IF matches = <<>> THEN kept
    ELSE IF GitHubKeeps(Head(matches)[2])
         THEN ParseGitHubFrom(Tail(matches), search_term, Tail(draws),
                              Append(kept, GitHubCourse(Head(matches), search_term, Head(draws))))
         ELSE ParseGitHubFrom(Tail(matches), search_term, draws, kept)

_parse_github_results(matches, search_term, draws) ==
    ParseGitHubFrom(Take(matches, 2), search_term, draws, <<>>)

----------------------------------------------------------------------------
(* Fallback generation: _get_fallback_courses. *)

\* "Introduction to "
IntroductionTo == <<"I","n","t","r","o","d","u","c","t","i","o","n"," ","t","o"," ">>

\* " - "
Dash == <<" ","-"," ">>

\* " Level"
LevelSuffix == <<" ","L","e","v","e","l">>

\* " Skills Development Course"
SkillsSuffix == <<" ","S","k","i","l","l","s"," ","D","e","v","e","l","o","p","m","e","n","t"," ","C","o","u","r","s","e">>

_get_fallback_courses(c, level) ==
    <<[title            |-> IntroductionTo \o c \o Dash \o TitleCase(level) \o LevelSuffix,
       url              |-> "https://www.youtube.com/results?search_query=career+development",
       provider         |-> "Career Guidance",
       level            |-> level,
       rating           |-> 45,
       duration         |-> "Self-paced",
       instructors      |-> <<"Professional Instructors">>,
       enrollment_count |-> 10000,
       price            |-> "Free",
       language         |-> "English",
       score            |-> 0,
       searched_for     |-> FallbackTerm],
      [title            |-> c \o SkillsSuffix,
       url              |-> "https://www.youtube.com/results?search_query=professional+skills",
       provider         |-> "Skills Academy",
       level            |-> level,
       rating           |-> 43,
       duration         |-> "4-6 weeks",
       instructors      |-> <<"Industry Experts">>,
       enrollment_count |-> 15000,
       price            |-> "Free",
       language         |-> "English",
       score            |-> 0,
       searched_for     |-> FallbackTerm]>>

\* the fallback threshold of search_courses
MinCourses == 20

\* the fallback check with 0 < len(all_courses) < 20
AddFallbackNonEmpty(pool, c, level) ==
    IF 0 < Len(pool) /\ Len(pool) < MinCourses
    THEN pool \o _get_fallback_courses(c, level) ELSE pool

\* the fallback check with len(all_courses) <= 20
AddFallbackInclusive(pool, c, level) ==
    IF Len(pool) <= MinCourses THEN pool \o _get_fallback_courses(c, level) ELSE pool

\* the fallback check with len(all_courses) < 5, the size of the result
AddFallbackBelowFive(pool, c, level) ==
    IF Len(pool) < 5 THEN pool \o _get_fallback_courses(c, level) ELSE pool

\* lines 212-216 of search_courses: all_courses after the fallback check
AddFallback(pool, c, level) ==
    IF Len(pool) < MinCourses THEN pool \o _get_fallback_courses(c, level) ELSE pool

----------------------------------------------------------------------------
(* Ranking: _rank_courses.  Sub-scores and their sum are exact, in units of *)
(* 1/50000; the stored score is the sum rounded to hundredths.              *)

\* enrollment_count / 50000
EnrollmentDivisor == 50000

\* n tenths, in units of 1/50000
Tenths(n) == n * (EnrollmentDivisor \div 10)

_get_provider_score(provider) ==
    CASE provider = "YouTube"         -> Tenths(15)
      [] provider = "GitHub"          -> Tenths(12)
      [] provider = "Career Guidance" -> Tenths(8)
      [] provider = "Skills Academy"  -> Tenths(8)
      [] OTHER                        -> Tenths(5)

\* the relevance with the title taken as it is, not lower-cased
RelevanceCaseSensitive(course, c) ==
    LET title        == Get(course, "title", <<>>)
        career_lower == Lower(c)
        words        == Split(career_lower)
    IN  IF Contains(career_lower, title) THEN Tenths(20)
        ELSE IF \E i \in 1..Len(words) : Contains(words[i], title) THEN Tenths(15)
        ELSE Tenths(5)

\* lines 579-602
_calculate_relevance_score(course, c) ==
    LET title        == Lower(Get(course, "title", <<>>))
        career_lower == Lower(c)
        words        == Split(career_lower)
    IN  IF Contains(career_lower, title) THEN Tenths(20)
        ELSE IF \E i \in 1..Len(words) : Contains(words[i], title) THEN Tenths(15)
        ELSE Tenths(5)

\* course.get("rating", 4.0) * 1.5, the rating being in tenths
RatingScore(course) == (Tenths(Get(course, "rating", 40)) * 15) \div 10

\* the enrollment score without its cap of 2
EnrollmentScoreUncapped(course) == Get(course, "enrollment_count", 0)

\* min(course.get("enrollment_count", 0) / 50000, 2)
EnrollmentScore(course) == Min(Get(course, "enrollment_count", 0), 2 * EnrollmentDivisor)

\* the price score with 1.0 for a course that is not free
PriceScoreFlat(course) == IF Get(course, "price", "None") = "Free" THEN Tenths(20) ELSE Tenths(10)

\* 2.0 if course.get("price") == "Free" else 0.5
PriceScore(course) == IF Get(course, "price", "None") = "Free" THEN Tenths(20) ELSE Tenths(5)

\* the unrounded score of lines 540-560
RawScore(course, c) ==
    _get_provider_score(course.provider) + RatingScore(course) + EnrollmentScore(course)
        + PriceScore(course) + _calculate_relevance_score(course, c)

\* round(score, 2): x in units of 1/50000 to hundredths, a tie going to the even
\* hundredth.  (The enrollment counts of the model are never an odd multiple of
\* 250, so no score of the model is a tie.)
Round2(x) ==
    LET unit == EnrollmentDivisor \div 100
        q    == x \div unit
        r    == x % unit
    IN  IF 2 * r > unit \/ (2 * r = unit /\ q % 2 = 1) THEN q + 1 ELSE q

\* course["score"] = s
SetScore(course, s) ==
    IF "score" \in DOMAIN course THEN [course EXCEPT !.score = s] ELSE ("score" :> s) @@ course

\* the loop of lines 539-563: every course with its score stored
RECURSIVE Scored(_, _)
Scored(lst, c) ==
    IF lst = <<>> THEN <<>>
    ELSE <<SetScore(Head(lst), Round2(RawScore(Head(lst), c)))>> \o Scored(Tail(lst), c)

\* the place of x in a list sorted by ascending score (reverse=True left out)
RECURSIVE InsertAscending(_, _)
InsertAscending(sorted, x) ==
    IF sorted = <<>> THEN <<x>>
    ELSE IF Head(sorted).score <= x.score
         THEN <<Head(sorted)>> \o InsertAscending(Tail(sorted), x)
         ELSE <<x>> \o sorted

\* the place of x in a list sorted by descending score, before the elements of
\* equal score (a sort that is not stable)
RECURSIVE InsertBeforeEqual(_, _)
InsertBeforeEqual(sorted, x) ==
    IF sorted = <<>> THEN <<x>>
    ELSE IF Head(sorted).score > x.score
         THEN <<Head(sorted)>> \o InsertBeforeEqual(Tail(sorted), x)
         ELSE <<x>> \o sorted

\* the place of x in a list sorted by descending score: after every element whose
\* score is at least x's, so that equal scores keep their input order
RECURSIVE InsertDescending(_, _)
InsertDescending(sorted, x) ==
    IF sorted = <<>> THEN <<x>>
    ELSE IF Head(sorted).score >= x.score
         THEN <<Head(sorted)>> \o InsertDescending(Tail(sorted), x)
         ELSE <<x>> \o sorted

\* sorted(lst, key=lambda x: x["score"], reverse=True): a stable sort
RECURSIVE SortedDescending(_, _)
SortedDescending(lst, sorted) ==
    IF lst = <<>> THEN sorted
    ELSE SortedDescending(Tail(lst), InsertDescending(sorted, Head(lst)))

_rank_courses(lst, level, c) ==
    IF lst = <<>> THEN <<>>
    ELSE SortedDescending(Scored(lst, c), <<>>)

\* ranked_courses[:5]
TopN == 5

----------------------------------------------------------------------------
(* The decision tree of DynamicDecisionAgent.  A rating and a threshold are  *)
(* in hundredths: 70 is 0.7.  The answers of a node are in the order the     *)
(* dict of the node declares them.                                           *)

get_default_tree ==
    "Math" :> [question |-> "Rate your Math skills (0.0 - 1.0):",
        answers |-> <<
            [key |-> "high", threshold |-> 70, next |-> "Math_High"],
            [key |-> "medium", threshold |-> 40, next |-> "Math_Med"],
            [key |-> "low", threshold |-> 0, next |-> "Math_Low"]>>] @@
    "Math_High" :> [question |-> "Rate your Programming skills (0.0 - 1.0):",
        answers |-> <<
            [key |-> "high", threshold |-> 50, next |-> "HighProg"],
            [key |-> "low", threshold |-> 0, next |-> "HighPhys"]>>] @@
    "HighProg" :> [question |-> "Rate your interest in Data/AI (0.0 - 1.0):",
        answers |-> <<
            [key |-> "high", threshold |-> 60, next |-> "Data Scientist"],
            [key |-> "low", threshold |-> 0, next |-> "Software Engineer"]>>] @@
    "HighPhys" :> [question |-> "Rate your Physics/Engineering knowledge (0.0 - 1.0):",
        answers |-> <<
            [key |-> "low", threshold |-> 60, next |-> "Research Scientist"],
            [key |-> "high", threshold |-> 0, next |-> "Engineer"]>>] @@
    "Math_Med" :> [question |-> "Rate your Design/Creativity skills (0.0 - 1.0):",
        answers |-> <<
            [key |-> "high", threshold |-> 50, next |-> "MedDesign"],
            [key |-> "low", threshold |-> 0, next |-> "MedBio"]>>] @@
    "MedDesign" :> [question |-> "Rate your Communication/Teamwork skills (0.0 - 1.0):",
        answers |-> <<
            [key |-> "high", threshold |-> 60, next |-> "UI/UX Designer"],
            [key |-> "low", threshold |-> 0, next |-> "Graphic Designer"]>>] @@
    "MedBio" :> [question |-> "Rate your Biology/Health knowledge (0.0 - 1.0):",
        answers |-> <<
            [key |-> "high", threshold |-> 60, next |-> "Healthcare Specialist"],
            [key |-> "low", threshold |-> 0, next |-> "Project Manager"]>>] @@
    "Math_Low" :> [question |-> "Rate your Communication/People skills (0.0 - 1.0):",
        answers |-> <<
            [key |-> "high", threshold |-> 50, next |-> "LowComm"],
            [key |-> "low", threshold |-> 0, next |-> "LowHands"]>>] @@
    "LowComm" :> [question |-> "Rate your Leadership ability (0.0 - 1.0):",
        answers |-> <<
            [key |-> "high", threshold |-> 60, next |-> "Manager / HR Specialist"],
            [key |-> "low", threshold |-> 0, next |-> "Journalist / Public Speaker"]>>] @@
    "LowHands" :> [question |-> "Rate your Practical/Technical skills (0.0 - 1.0):",
        answers |-> <<
            [key |-> "high", threshold |-> 60, next |-> "Technician"],
            [key |-> "low", threshold |-> 0, next |-> "Sales Assistant"]>>]

\* the tree with the last answer of "Math" left out
TreeWithoutCatchAll ==
    [get_default_tree EXCEPT !["Math"].answers = SubSeq(@, 1, Len(@) - 1)]

\* the tree with the last answer of "Math" leading to a career at once
TreeWithShortcut ==
    [get_default_tree EXCEPT !["Math"].answers[3].next = "Sales Assistant"]

\* self.tree of the agent
tree == get_default_tree

\* the first answer met, compared with > for >=
RECURSIVE FirstMatchStrict(_, _, _)
FirstMatchStrict(answers, user_input, current) ==
    IF answers = <<>> THEN current
    ELSE IF user_input > Head(answers).threshold THEN Head(answers).next
    ELSE FirstMatchStrict(Tail(answers), user_input, current)

\* the first answer met, its key returned for its next
RECURSIVE FirstMatchReturnsKey(_, _, _)
FirstMatchReturnsKey(answers, user_input, current) ==
    IF answers = <<>> THEN current
    ELSE IF user_input >= Head(answers).threshold THEN Head(answers).key
    ELSE FirstMatchReturnsKey(Tail(answers), user_input, current)

\* the last answer met for the first
RECURSIVE LastMatch(_, _, _)
LastMatch(answers, user_input, current) ==
    IF answers = <<>> THEN current
    ELSE IF user_input >= answers[Len(answers)].threshold THEN answers[Len(answers)].next
    ELSE LastMatch(SubSeq(answers, 1, Len(answers) - 1), user_input, current)

\* lines 153-157: the next of the first answer whose threshold the input meets, or
\* current_node if there is none
RECURSIVE FirstMatch(_, _, _)
FirstMatch(answers, user_input, current) ==
    IF answers = <<>> THEN current
    ELSE IF user_input >= Head(answers).threshold THEN Head(answers).next
    ELSE FirstMatch(Tail(answers), user_input, current)

\* the node looked up without the check that it is in the tree
NavigateUnknownFails(current, user_input) ==
    IF current \notin DOMAIN tree THEN "KeyError"
    ELSE FirstMatch(tree[current].answers, user_input, current)

\* lines 131-157, current being its argument current_node
navigate_tree(current, user_input) ==
    IF current \notin DOMAIN tree THEN current
    ELSE LET node == tree[current]
         IN  IF "answers" \notin DOMAIN node THEN current
             ELSE FirstMatch(node.answers, user_input, current)

----------------------------------------------------------------------------
(* The inputs of the model: the careers and levels search_courses is called *)
(* with, the result pages the providers answer with, the draws of random.   *)

\* "Data Scientist" (a key of career_keywords)
DataScientist == <<"D","a","t","a"," ","S","c","i","e","n","t","i","s","t">>

\* "Chef" (no key of career_keywords)
Chef == <<"C","h","e","f">>

\* "expert" (no key of level_keywords)
Expert == <<"e","x","p","e","r","t">>

Careers == {DataScientist, Chef}

\* the level of every call the application makes: the default of user_level
Levels == {Beginner}

AllLevels == {Beginner, Expert}

\* a page of the video provider: 4 matches
YouTubePage1 ==
    <<
    \* "Data Scientist Course: Full Guide!": kept
    <<"vid00000001", <<"D","a","t","a"," ","S","c","i","e","n","t","i","s","t"," ","C","o","u","r","s","e",":"," ","F","u","l","l"," ","G","u","i","d","e","!">>>>,
    \* "Learn SQL": dropped, 15 characters or fewer
    <<"vid00000002", <<"L","e","a","r","n"," ","S","Q","L">>>>,
    \* "Python_data  tutorial #1": kept
    <<"vid00000003", <<"P","y","t","h","o","n","_","d","a","t","a"," "," ","t","u","t","o","r","i","a","l"," ","#","1">>>>,
    \* "Machine Learning Introduction": never looked at, the 4th match
    <<"vid00000004", <<"M","a","c","h","i","n","e"," ","L","e","a","r","n","i","n","g"," ","I","n","t","r","o","d","u","c","t","i","o","n">>>>
    >>

\* another page of the video provider: 2 matches
YouTubePage2 ==
    <<
    \* "Top 10 Funny Cat Videos": dropped, no keyword
    <<"vid00000005", <<"T","o","p"," ","1","0"," ","F","u","n","n","y"," ","C","a","t"," ","V","i","d","e","o","s">>>>,
    \* " Learn to be a CHEF (2024)": kept
    <<"vid00000006", <<" ","L","e","a","r","n"," ","t","o"," ","b","e"," ","a"," ","C","H","E","F"," ","(","2","0","2","4",")">>>>
    >>

\* a third page of the video provider: 3 matches
YouTubePage3 ==
    <<
    \* "Introduction to Data Science": kept
    <<"vid00000007", <<"I","n","t","r","o","d","u","c","t","i","o","n"," ","t","o"," ","D","a","t","a"," ","S","c","i","e","n","c","e">>>>,
    \* "Chef Knife Skills: Beginner Guide": kept
    <<"vid00000008", <<"C","h","e","f"," ","K","n","i","f","e"," ","S","k","i","l","l","s",":"," ","B","e","g","i","n","n","e","r"," ","G","u","i","d","e">>>>,
    \* "LEARN Machine Learning in 1 Hour": kept
    <<"vid00000009", <<"L","E","A","R","N"," ","M","a","c","h","i","n","e"," ","L","e","a","r","n","i","n","g"," ","i","n"," ","1"," ","H","o","u","r">>>>
    >>

\* another page of the repository provider: 2 matches
GitHubPage2 ==
    <<
    \* "Data-Scientist Guide": kept
    <<"/ds/guide", <<"D","a","t","a","-","S","c","i","e","n","t","i","s","t"," ","G","u","i","d","e">>>>,
    \* "ml_examples": kept
    <<"/ml/examples", <<"m","l","_","e","x","a","m","p","l","e","s">>>>
    >>

\* a page of the repository provider: 3 matches
GitHubPage1 ==
    <<
    \* "learn": kept
    <<"/octo/learn", <<"l","e","a","r","n">>>>,
    \* "awesome-list": dropped, no keyword
    <<"/octo/awesome-list", <<"a","w","e","s","o","m","e","-","l","i","s","t">>>>,
    \* "chef-course": never looked at, the 3rd match
    <<"/octo/chef-course", <<"c","h","e","f","-","c","o","u","r","s","e">>>>
    >>

\* a page of the video provider with no course on it: 1 match
YouTubeNoCourse ==
    <<
    \* "Funny Cat Compilation #7": dropped, no keyword
    <<"vid00000010", <<"F","u","n","n","y"," ","C","a","t"," ","C","o","m","p","i","l","a","t","i","o","n"," ","#","7">>>>
    >>

\* a page of the repository provider on which repo_pattern matches nothing
GitHubNoMatch == <<>>

YouTubePages == {YouTubePage1, YouTubePage2, YouTubePage3, YouTubeNoCourse}

GitHubPages == {GitHubPage1, GitHubPage2, GitHubNoMatch}

\* round(random.uniform(4.2, 4.9), 1), random.randint(1, 8), random.randint(5000, 200000)
\* for the first, second and third candidate of a page
YouTubeDraw1 ==
    <<[rating |-> 49, hours |-> 3, enrollment |-> 200000],
      [rating |-> 42, hours |-> 1, enrollment |-> 5000],
      [rating |-> 45, hours |-> 8, enrollment |-> 60100]>>

\* the same draws for every candidate
YouTubeDraw2 ==
    <<[rating |-> 42, hours |-> 5, enrollment |-> 5000],
      [rating |-> 42, hours |-> 5, enrollment |-> 5000],
      [rating |-> 42, hours |-> 5, enrollment |-> 5000]>>

YouTubeDraws == {YouTubeDraw1, YouTubeDraw2}

\* round(random.uniform(4.0, 4.8), 1), random.randint(100, 5000)
\* for the first and second candidate of a page
GitHubDraw1 ==
    <<[rating |-> 48, enrollment |-> 5000],
      [rating |-> 40, enrollment |-> 100]>>

GitHubDraws == {GitHubDraw1}

\* what urlopen(...) and response.read().decode('utf-8') raise
FetchErrors == {"URLError", "UnicodeDecodeError"}

----------------------------------------------------------------------------
(* The cache: course_cache, _is_cache_too_old, _is_cache_valid. *)

\* days in timedelta(weeks=1), the literal of _is_cache_too_old
Week == 7

\* days in self.cache_expiry = timedelta(weeks=1)
cache_expiry == 7

\* f"{career}_{user_level}"
CacheKey(c, level) == c \o <<"_">> \o level

cache_key == CacheKey(career, user_level)

\* _is_cache_too_old with the subtraction the wrong way round
TooOldReversed(cache, key, today) ==
    IF key \in DOMAIN cache THEN cache[key].timestamp - today > Week ELSE FALSE

_is_cache_too_old(cache, key, today) ==
    IF key \in DOMAIN cache THEN today - cache[key].timestamp > Week ELSE FALSE

\* _is_cache_valid with the comparison inverted
ValidInverted(cache, key, today) ==
    IF key \in DOMAIN cache THEN today - cache[key].timestamp > cache_expiry ELSE FALSE

_is_cache_valid(cache, key, today) ==
    IF key \in DOMAIN cache THEN today - cache[key].timestamp < cache_expiry ELSE FALSE

\* del cache[key]
Del(cache, key) == [k \in DOMAIN cache \ {key} |-> cache[k]]

\* an entry refreshed incrementally: the new courses added to the ones in the cache
PutMerged(cache, key, value) ==
    [k \in DOMAIN cache \cup {key} |->
        IF k # key THEN cache[k]
        ELSE IF key \in DOMAIN cache
             THEN [value EXCEPT !.courses = cache[key].courses \o value.courses]
             ELSE value]

\* cache[key] = value
Put(cache, key, value) == [k \in DOMAIN cache \cup {key} |-> IF k = key THEN value ELSE cache[k]]

----------------------------------------------------------------------------
(* search_courses, one step at a time.  The one caller is idle between      *)
(* calls; log records what the call did.                                    *)

\* the threads that call search_courses of one agent at the same time
Callers == {1, 2}

\* no background thread
NoThread == [state |-> "none", career |-> "None", called |-> 0]

\* a caller outside search_courses
NoCall == [pc |-> "idle", key |-> <<>>, top_courses |-> <<>>, outcome |-> "none"]

\* lines 720-722: the window before the first answer, no search in progress
AppStart ==
    /\ entry = <<>>
    /\ user_skills = <<>>
    /\ recommended_career = "None"
    /\ screen = "question"
    /\ dialog = ""
    /\ thread = NoThread
    /\ after_queue = <<>>
    /\ calls = [t \in Callers |-> NoCall]

Init ==
    /\ now = 0
    /\ hashSeed \in 0..MaxHashSeed
    /\ course_cache = <<>>
    /\ pc = "idle"
    /\ career = <<>>
    /\ user_level = <<>>
    /\ search_terms = <<>>
    /\ termIdx = 0
    /\ courses = <<>>
    /\ all_courses = <<>>
    /\ ranked_courses = <<>>
    /\ result = <<>>
    /\ log = <<>>
    /\ searches = 0
    /\ current_node = "Math"
    /\ navigated = <<>>
    /\ AppStart

\* Time passes.  Only the steps that read the clock see it, so the model lets it
\* pass right before each of them: the two cache checks and the cache write.
Tick ==
    /\ now < MaxTime
    /\ pc \in {"idle", "valid", "store"}
    /\ now' = now + 1
    /\ UNCHANGED <<hashSeed, course_cache, pc, career, user_level, search_terms, termIdx,
                   courses, all_courses, ranked_courses, result, log, searches>>
    /\ UNCHANGED treeVars

\* lines 185-191: the call, and the eviction of an entry older than a week
EvictStale(c, level) ==
    LET key == CacheKey(c, level)
        old == _is_cache_too_old(course_cache, key, now)
    IN  /\ pc = "idle"
        /\ searches < MaxSearches
        /\ searches' = searches + 1
        /\ career' = c
        /\ user_level' = level
        /\ course_cache' = IF old /\ key \in DOMAIN course_cache
                           THEN Del(course_cache, key) ELSE course_cache
        /\ log' = IF old THEN <<[ev |-> "evict", key |-> key]>> ELSE <<>>
        /\ pc' = "valid"
        /\ search_terms' = <<>>
        /\ termIdx' = 0
        /\ courses' = <<>>
        /\ all_courses' = <<>>
        /\ ranked_courses' = <<>>
        /\ UNCHANGED <<now, hashSeed, result>>
        /\ UNCHANGED treeVars

\* a hit that renews the entry's timestamp
ReturnCachedRenewed ==
    /\ pc = "valid"
    /\ _is_cache_valid(course_cache, cache_key, now)
    /\ result' = course_cache[cache_key].courses
    /\ course_cache' = [course_cache EXCEPT ![cache_key].timestamp = now]
    /\ log' = Append(log, [ev |-> "hit", age |-> now - course_cache[cache_key].timestamp])
    /\ pc' = "idle"
    /\ UNCHANGED <<now, hashSeed, career, user_level, search_terms, termIdx,
                   courses, all_courses, ranked_courses, searches>>
    /\ UNCHANGED treeVars

\* lines 194-196: a valid entry is returned
ReturnCached ==
    /\ pc = "valid"
    /\ _is_cache_valid(course_cache, cache_key, now)
    /\ result' = course_cache[cache_key].courses
    /\ log' = Append(log, [ev |-> "hit", age |-> now - course_cache[cache_key].timestamp])
    /\ pc' = "idle"
    /\ UNCHANGED <<now, hashSeed, course_cache, career, user_level, search_terms, termIdx,
                   courses, all_courses, ranked_courses, searches>>
    /\ UNCHANGED treeVars

\* lines 198-203, 250-251: no valid entry, the fresh search enters _search_youtube
StartFresh ==
    /\ pc = "valid"
    /\ ~_is_cache_valid(course_cache, cache_key, now)
    /\ log' = Append(log, [ev |-> "miss"])
    /\ all_courses' = <<>>
    /\ courses' = <<>>
    /\ search_terms' = _get_search_terms(career, user_level, hashSeed)
    /\ termIdx' = 1
    /\ pc' = "youtube"
    /\ UNCHANGED <<now, hashSeed, course_cache, career, user_level, ranked_courses,
                   result, searches>>
    /\ UNCHANGED treeVars

\* every term sent to every provider
ProviderTermsAll(provider) == search_terms

\* search_terms[:2] of _search_youtube, search_terms[:1] of _search_github
ProviderTerms(provider) == Take(search_terms, IF provider = "YouTube" THEN 2 ELSE 1)

\* the end of one iteration with the repository provider left out: after the last
\* term of the video provider the call goes on to the fallback check
LoopStepSkipsGitHub(provider, found) ==
    IF termIdx < Len(ProviderTerms(provider))
    THEN /\ termIdx' = termIdx + 1
         /\ courses' = found
         /\ pc' = pc
         /\ UNCHANGED <<search_terms, all_courses>>
    ELSE /\ termIdx' = 1
         /\ courses' = <<>>
         /\ all_courses' = all_courses \o found
         /\ search_terms' = <<>>
         /\ pc' = "fallback"

\* The end of one iteration of a provider's loop: the next term, or after the last
\* term the return of the provider's courses, which search_courses appends to
\* all_courses (lines 204, 209) before it goes on: into _search_github, which
\* computes its own search_terms (lines 335-336), or to the fallback check.
LoopStep(provider, found) ==
    IF termIdx < Len(ProviderTerms(provider))
    THEN /\ termIdx' = termIdx + 1
         /\ courses' = found
         /\ pc' = pc
         /\ UNCHANGED <<search_terms, all_courses>>
    ELSE /\ termIdx' = 1
         /\ courses' = <<>>
         /\ all_courses' = all_courses \o found
         /\ search_terms' = IF provider = "YouTube"
                            THEN _get_search_terms(career, user_level, hashSeed)
                            ELSE <<>>
         /\ pc' = IF provider = "YouTube" THEN "github" ELSE "fallback"

\* lines 253-273: one iteration of _search_youtube that fetches and parses a page
SearchYouTube(page, draws) ==
    LET term  == ProviderTerms("YouTube")[termIdx]
        found == _parse_youtube_results(page, term, draws)
    IN  /\ pc = "youtube"
        /\ log' = log \o <<[ev |-> "fetch", provider |-> "YouTube", term |-> term,
                            error |-> "none", found |-> Len(found)],
                           [ev |-> "sleep", provider |-> "YouTube"]>>
        /\ LoopStep("YouTube", courses \o found)
        /\ UNCHANGED <<now, hashSeed, course_cache, career, user_level, ranked_courses,
                       result, searches>>
        /\ UNCHANGED treeVars

\* a failure that ends the loop of _search_youtube (break for continue)
SearchYouTubeFailsBreaks(err) ==
    LET term == ProviderTerms("YouTube")[termIdx]
    IN  /\ pc = "youtube"
        /\ log' = Append(log, [ev |-> "fetch", provider |-> "YouTube", term |-> term,
                               error |-> err, found |-> 0])
        /\ termIdx' = 1
        /\ courses' = <<>>
        /\ all_courses' = all_courses \o courses
        /\ search_terms' = _get_search_terms(career, user_level, hashSeed)
        /\ pc' = "github"
        /\ UNCHANGED <<now, hashSeed, course_cache, career, user_level, ranked_courses,
                       result, searches>>
        /\ UNCHANGED treeVars

\* lines 275-277: one iteration of _search_youtube whose fetch or decoding raises
SearchYouTubeFails(err) ==
    LET term == ProviderTerms("YouTube")[termIdx]
    IN  /\ pc = "youtube"
        /\ log' = Append(log, [ev |-> "fetch", provider |-> "YouTube", term |-> term,
                               error |-> err, found |-> 0])
        /\ LoopStep("YouTube", courses)
        /\ UNCHANGED <<now, hashSeed, course_cache, career, user_level, ranked_courses,
                       result, searches>>
        /\ UNCHANGED treeVars

\* lines 338-358: the iteration of _search_github that fetches and parses a page
SearchGitHub(page, draws) ==
    LET term  == ProviderTerms("GitHub")[termIdx]
        found == _parse_github_results(page, term, draws)
    IN  /\ pc = "github"
        /\ log' = log \o <<[ev |-> "fetch", provider |-> "GitHub", term |-> term,
                            error |-> "none", found |-> Len(found)],
                           [ev |-> "sleep", provider |-> "GitHub"]>>
        /\ LoopStep("GitHub", courses \o found)
        /\ UNCHANGED <<now, hashSeed, course_cache, career, user_level, ranked_courses,
                       result, searches>>
        /\ UNCHANGED treeVars

\* a failure of the fetch that is not caught and ends the call
SearchGitHubFailsRaises(err) ==
    LET term == ProviderTerms("GitHub")[termIdx]
    IN  /\ pc = "github"
        /\ log' = Append(log, [ev |-> "fetch", provider |-> "GitHub", term |-> term,
                               error |-> err, found |-> 0])
        /\ pc' = "raised"
        /\ UNCHANGED <<now, hashSeed, course_cache, career, user_level, search_terms, termIdx,
                       courses, all_courses, ranked_courses, result, searches>>
        /\ UNCHANGED treeVars

\* lines 360-362: the iteration of _search_github whose fetch or decoding raises
SearchGitHubFails(err) ==
    LET term == ProviderTerms("GitHub")[termIdx]
    IN  /\ pc = "github"
        /\ log' = Append(log, [ev |-> "fetch", provider |-> "GitHub", term |-> term,
                               error |-> err, found |-> 0])
        /\ LoopStep("GitHub", courses)
        /\ UNCHANGED <<now, hashSeed, course_cache, career, user_level, ranked_courses,
                       result, searches>>
        /\ UNCHANGED treeVars

\* lines 212-216: fallback courses for a pool of fewer than 20
FallbackCheck ==
    /\ pc = "fallback"
    /\ all_courses' = AddFallback(all_courses, career, user_level)
    /\ log' = Append(log, [ev |-> "fallback", pool |-> Len(all_courses),
                           added |-> Len(all_courses') - Len(all_courses)])
    /\ pc' = "rank"
    /\ UNCHANGED <<now, hashSeed, course_cache, career, user_level, search_terms, termIdx,
                   courses, ranked_courses, result, searches>>
    /\ UNCHANGED treeVars

\* line 219: ranking.  _rank_courses stores each score in the course itself, and the
\* courses of all_courses are those same objects.
RankCourses ==
    /\ pc = "rank"
    /\ ranked_courses' = _rank_courses(all_courses, user_level, career)
    /\ all_courses' = Scored(all_courses, career)
    /\ log' = Append(log, [ev |-> "rank", pool |-> Len(all_courses)])
    /\ pc' = "store"
    /\ UNCHANGED <<now, hashSeed, course_cache, career, user_level, search_terms, termIdx,
                   courses, result, searches>>
    /\ UNCHANGED treeVars

\* the whole ranking cached, the top 5 returned
StoreAndReturnCachesAll ==
    LET top_courses == Take(ranked_courses, TopN)
    IN  /\ pc = "store"
        /\ course_cache' = Put(course_cache, cache_key,
                               [courses |-> ranked_courses, timestamp |-> now])
        /\ result' = top_courses
        /\ log' = Append(log, [ev |-> "store", key |-> cache_key, timestamp |-> now,
                               ranked |-> Len(ranked_courses),
                               replaced |-> cache_key \in DOMAIN course_cache])
        /\ pc' = "idle"
        /\ all_courses' = <<>>
        /\ ranked_courses' = <<>>
        /\ UNCHANGED <<now, hashSeed, career, user_level, search_terms, termIdx, courses,
                       searches>>
        /\ UNCHANGED treeVars

\* a result without a course of a provider returned and not cached
StoreAndReturnRealOnly ==
    LET top_courses == Take(ranked_courses, TopN)
        real == \E i \in 1..Len(top_courses) : top_courses[i].searched_for # FallbackTerm
    IN  /\ pc = "store"
        /\ course_cache' = IF real
                           THEN Put(course_cache, cache_key,
                                    [courses |-> top_courses, timestamp |-> now])
                           ELSE course_cache
        /\ result' = top_courses
        /\ log' = Append(log, [ev |-> "store", key |-> cache_key, timestamp |-> now,
                               ranked |-> Len(ranked_courses),
                               replaced |-> cache_key \in DOMAIN course_cache])
        /\ pc' = "idle"
        /\ all_courses' = <<>>
        /\ ranked_courses' = <<>>
        /\ UNCHANGED <<now, hashSeed, career, user_level, search_terms, termIdx, courses,
                       searches>>
        /\ UNCHANGED treeVars

\* lines 220-229: the top 5 are cached with the time of the write and returned; the
\* locals of the call are gone with it
StoreAndReturn ==
    LET top_courses == Take(ranked_courses, TopN)
    IN  /\ pc = "store"
        /\ course_cache' = Put(course_cache, cache_key,
                               [courses |-> top_courses, timestamp |-> now])
        /\ result' = top_courses
        /\ log' = Append(log, [ev |-> "store", key |-> cache_key, timestamp |-> now,
                               ranked |-> Len(ranked_courses),
                               replaced |-> cache_key \in DOMAIN course_cache])
        /\ pc' = "idle"
        /\ all_courses' = <<>>
        /\ ranked_courses' = <<>>
        /\ UNCHANGED <<now, hashSeed, career, user_level, search_terms, termIdx, courses,
                       searches>>
        /\ UNCHANGED treeVars

\* Any number of searches, up to MaxSearches, at any times.  The video provider
\* answers one page or fails, the repository provider answers one page.
Next ==
    \/ Tick
    \/ \E c \in Careers, level \in Levels : EvictStale(c, level)
    \/ ReturnCached
    \/ StartFresh
    \/ SearchYouTube(YouTubePage1, YouTubeDraw1)
    \/ SearchYouTubeFails("URLError")
    \/ SearchGitHub(GitHubPage1, GitHubDraw1)
    \/ FallbackCheck
    \/ RankCourses
    \/ StoreAndReturn

Spec == Init /\ [][Next]_vars

\* The first search of a process, against every page, draw and failure of the
\* sources.  No step of it depends on the clock.
PipelineNext ==
    \/ \E c \in Careers, level \in AllLevels : searches = 0 /\ EvictStale(c, level)
    \/ StartFresh
    \/ \E page \in YouTubePages, draws \in YouTubeDraws : SearchYouTube(page, draws)
    \/ \E err \in FetchErrors : SearchYouTubeFails(err)
    \/ \E page \in GitHubPages, draws \in GitHubDraws : SearchGitHub(page, draws)
    \/ \E err \in FetchErrors : SearchGitHubFails(err)
    \/ FallbackCheck
    \/ RankCourses
    \/ StoreAndReturn

PipelineSpec == Init /\ [][PipelineNext]_vars

\* Lines 212-229 as a function of the pool: the fallback check, or the ranking,
\* entered with a pool of any size up to MaxPool, the pools of 20 and more included.
\* (The pools search_courses itself gathers have at most 8 courses.)
PoolCourses ==
    _parse_youtube_results(YouTubePage1, DataScientist, YouTubeDraw1)
        \o _parse_github_results(GitHubPage1, DataScientist, GitHubDraw1)

Pool(n, k) == AsTuple([i \in 1..n |-> PoolCourses[((i + k) % Len(PoolCourses)) + 1]])

StageInit ==
    /\ now = 0
    /\ hashSeed \in 0..MaxHashSeed
    /\ course_cache = <<>>
    /\ pc \in {"fallback", "rank"}
    /\ career \in Careers
    /\ user_level \in AllLevels
    /\ search_terms = <<>>
    /\ termIdx = 1
    /\ courses = <<>>
    /\ \E n \in 0..MaxPool, k \in 0..MaxHashSeed : all_courses = Pool(n, k)
    /\ ranked_courses = <<>>
    /\ result = <<>>
    /\ log = <<[ev |-> "miss"]>>
    /\ searches = 1
    /\ current_node = "Math"
    /\ navigated = <<>>
    /\ AppStart

StageNext ==
    \/ FallbackCheck
    \/ RankCourses
    \/ StoreAndReturn

StageSpec == StageInit /\ [][StageNext]_vars

----------------------------------------------------------------------------
(* navigate_tree as a function: called on any node identifier, with any      *)
(* rating from below 0.0 to above 1.0, and called again on what it returned. *)

\* the largest rating tried, in hundredths; the smallest is as far below 0.0
MaxInput == 120

RatingInputs == (100 - MaxInput)..MaxInput

\* the 12 careers the tree ends in
CareerLabels ==
    {"Data Scientist", "Software Engineer", "Research Scientist", "Engineer",
     "UI/UX Designer", "Graphic Designer", "Healthcare Specialist", "Project Manager",
     "Manager / HR Specialist", "Journalist / Public Speaker", "Technician",
     "Sales Assistant"}

\* the nodes of the tree, the careers, and an identifier that is neither
NodeIds == DOMAIN tree \cup CareerLabels \cup {"Astronaut"}

TreeInit ==
    /\ now = 0
    /\ hashSeed = 0
    /\ course_cache = <<>>
    /\ pc = "idle"
    /\ career = <<>>
    /\ user_level = <<>>
    /\ search_terms = <<>>
    /\ termIdx = 0
    /\ courses = <<>>
    /\ all_courses = <<>>
    /\ ranked_courses = <<>>
    /\ result = <<>>
    /\ log = <<>>
    /\ searches = 0
    /\ current_node \in NodeIds
    /\ navigated = <<>>
    /\ AppStart

\* self.current_node = navigate_tree(self.current_node, rating), without the
\* check of the rating that process_answer makes before it
NavigateTree(user_input) ==
    /\ navigated' = [current_node |-> current_node, user_input |-> user_input,
                     returned |-> navigate_tree(current_node, user_input)]
    /\ current_node' = navigate_tree(current_node, user_input)
    /\ UNCHANGED <<searchVars, appVars, calls>>

TreeNext == \E user_input \in RatingInputs : NavigateTree(user_input)

TreeSpec == TreeInit /\ [][TreeNext]_vars

----------------------------------------------------------------------------
(* _rank_courses as a function: called on lists of courses whose fields take  *)
(* every kind of value the scoring tells apart, a field left out included,    *)
(* and called again on the list it has scored.                               *)

\* "Manager / HR Specialist"
ManagerHR == <<"M","a","n","a","g","e","r"," ","/"," ","H","R"," ","S","p","e","c","i","a","l","i","s","t">>

RankCareers == {DataScientist, Chef, ManagerHR}

\* "Data Scientist Bootcamp 2024": the career Data Scientist is in it
BootcampTitle == <<"D","a","t","a"," ","S","c","i","e","n","t","i","s","t"," ","B","o","o","t","c","a","m","p"," ","2","0","2","4">>

\* "Big DATA for Chefs": a word of Data Scientist and the career Chef are in it, in other case
ChefsTitle == <<"B","i","g"," ","D","A","T","A"," ","f","o","r"," ","C","h","e","f","s">>

\* "A/B Testing: Thread Basics": the words / and hr of Manager / HR Specialist are in it
ThreadTitle == <<"A","/","B"," ","T","e","s","t","i","n","g",":"," ","T","h","r","e","a","d"," ","B","a","s","i","c","s">>

\* "Python Programming Tutorial": no career of the model and no word of one is in it
PythonTitle == <<"P","y","t","h","o","n"," ","P","r","o","g","r","a","m","m","i","n","g"," ","T","u","t","o","r","i","a","l">>

\* a field that may be left out of a course: <<>>, or <<v>> for the value v
RankTitles == {<<>>, <<BootcampTitle>>, <<ChefsTitle>>, <<ThreadTitle>>, <<PythonTitle>>}

RankProviders == {"YouTube", "GitHub", "Career Guidance", "Skills Academy", "Udemy"}

\* ratings in tenths
RankRatings == {<<>>, <<0>>, <<43>>, <<50>>}

RankEnrollments == {<<>>, <<12345>>, <<100000>>, <<200000>>}

RankPrices == {<<>>, <<"Free">>, <<"Paid">>, <<"free">>}

Field(name, option) == IF option = <<>> THEN <<>> ELSE name :> option[1]

\* a course dict with its provider and the fields that are given
Candidate(provider, rating, enrollment, price, title) ==
    [provider |-> provider] @@ Field("rating", rating) @@ Field("enrollment_count", enrollment)
        @@ Field("price", price) @@ Field("title", title)

Candidates ==
    {Candidate(p, r, e, pr, ti) :
        p \in RankProviders, r \in RankRatings, e \in RankEnrollments,
        pr \in RankPrices, ti \in RankTitles}

\* a course and the same course with a higher rating
RatingPairs ==
    {pair \in {<<a, [a EXCEPT !.rating = r[1]]>> :
                  a \in {x \in Candidates : "rating" \in DOMAIN x}, r \in RankRatings \ {<<>>}} :
        pair[2].rating > pair[1].rating}

\* a course that is not free and the same course free
PricePairs ==
    {<<[a EXCEPT !.price = "Paid"], a>> : a \in {x \in Candidates : Get(x, "price", "") = "Free"}}

\* the two courses compared in the spec: a video course with rating 4.9, 200000
\* enrolled, free, the career in its title, and a course of an unknown provider
\* with rating 4.3, 15000 enrolled, free, a title without the career
VideoCourse(c) == Candidate("YouTube", <<49>>, <<200000>>, <<"Free">>, <<c \o <<" ">> \o PythonTitle>>)

GenericCourse == Candidate("Udemy", <<43>>, <<15000>>, <<"Free">>, <<PythonTitle>>)

\* courses of equal score 11.55 from the video provider, the repository provider
\* and the fallback, and one of another score
TiedCourses(c) ==
    LET fb == _get_fallback_courses(c, Beginner)
    IN  {Candidate("YouTube", <<49>>, <<10000>>, <<"Free">>, <<PythonTitle>>),
         Candidate("YouTube", <<49>>, <<10000>>, <<"Free">>, <<ThreadTitle>>),
         Candidate("GitHub", <<42>>, <<2500>>, <<"Free">>, <<GitHubPrefix \o c>>),
         fb[1], fb[2]}

\* the longest list of such courses
MaxTied == 3

TiedPools(c) == UNION {[1..n -> TiedCourses(c)] : n \in 0..MaxTied}

RankPools(c) ==
    {<<a>> : a \in Candidates} \cup RatingPairs \cup PricePairs
        \cup {<<GenericCourse, VideoCourse(c)>>} \cup TiedPools(c)

RankInit ==
    /\ now = 0
    /\ hashSeed = 0
    /\ course_cache = <<>>
    /\ pc = "rank"
    /\ career \in RankCareers
    /\ user_level = Beginner
    /\ search_terms = <<>>
    /\ termIdx = 1
    /\ courses = <<>>
    /\ \E pool \in RankPools(career) : all_courses = AsTuple(pool)
    /\ ranked_courses = <<>>
    /\ result = <<>>
    /\ log = <<>>
    /\ searches = 1
    /\ current_node = "Math"
    /\ navigated = <<>>
    /\ AppStart

\* the number of times a list is ranked
MaxRankings == 2

\* _rank_courses called again on the same list, whose courses have their scores
\* from the call before
RankAgain ==
    /\ pc = "store"
    /\ Len(log) < MaxRankings
    /\ ranked_courses' = _rank_courses(all_courses, user_level, career)
    /\ all_courses' = Scored(all_courses, career)
    /\ log' = Append(log, [ev |-> "rank", pool |-> Len(all_courses)])
    /\ UNCHANGED <<now, hashSeed, course_cache, pc, career, user_level, search_terms, termIdx,
                   courses, result, searches>>
    /\ UNCHANGED treeVars

RankNext ==
    \/ RankCourses
    \/ RankAgain

RankSpec == RankInit /\ [][RankNext]_vars

----------------------------------------------------------------------------
(* What the log of a call says. *)

LogHas(kind) == \E i \in 1..Len(log) : log[i].ev = kind

LastEvent == log[Len(log)]

Returned(kind) == pc = "idle" /\ log # <<>> /\ LastEvent.ev = kind

Event(kind) == log[CHOOSE i \in 1..Len(log) : log[i].ev = kind]

Fetches(provider) ==
    SelectSeq(log, LAMBDA e : e.ev = "fetch" /\ e.provider = provider)

FetchedTerms(provider) ==
    LET f == Fetches(provider) IN AsTuple([i \in 1..Len(f) |-> f[i].term])

RECURSIVE SumFound(_)
SumFound(events) ==
    IF events = <<>> THEN 0 ELSE Head(events).found + SumFound(Tail(events))

\* the terms of the call in progress, as _get_search_terms gives them
Terms == _get_search_terms(career, user_level, hashSeed)

Count(x, lst) == Cardinality({i \in 1..Len(lst) : lst[i] = x})

IsPermutation(a, b) ==
    /\ Len(a) = Len(b)
    /\ \A i \in 1..Len(a) : Count(a[i], a) = Count(a[i], b)

IsDescending(lst) == \A i \in 1..(Len(lst) - 1) : lst[i].score >= lst[i + 1].score

IsFallback(course) == course.searched_for = FallbackTerm

Stale(cache, key, today) == key \in DOMAIN cache /\ today - cache[key].timestamp > Week

----------------------------------------------------------------------------
(* The cache. *)

\* C1: a call of search_courses for a key whose entry is older than 1 week deletes
\* the entry before the lookup, the lookup is then a miss and the call returns the
\* freshly ranked list; no call returns a cached list older than 1 week.
C1_StaleEntryEvicted ==
    [][/\ (pc = "idle" /\ pc' = "valid"
              /\ Stale(course_cache, CacheKey(career', user_level'), now))
          => CacheKey(career', user_level') \notin DOMAIN course_cache'
       /\ (pc = "valid" /\ pc' # "valid" /\ cache_key \notin DOMAIN course_cache)
          => pc' = "youtube"
       /\ (pc = "valid" /\ pc' = "idle")
          => /\ now - course_cache[cache_key].timestamp <= Week
             /\ ~LogHas("evict")
       /\ (pc # "idle" /\ pc' = "idle" /\ LogHas("evict"))
          => /\ pc = "store"
             /\ result' = Take(ranked_courses, TopN)
             /\ course_cache'[cache_key].timestamp = now
      ]_vars

\* C1's case: a call has evicted a stale entry and returned a fresh list.
C1_Witness ==
    /\ Returned("store")
    /\ LogHas("evict")
    /\ LastEvent.replaced = FALSE
    /\ result = course_cache[cache_key].courses

\* C2: the list a search stores for a key is the list it returns; a lookup of the
\* key at the time of the write returns exactly the stored list; a lookup more than
\* 1 week after the write is a miss and the fresh search runs.
C2_CacheRoundTrip ==
    [][/\ (pc = "store" /\ pc' = "idle")
          => course_cache'[cache_key] = [courses |-> result', timestamp |-> now]
       /\ (pc = "valid" /\ pc' # "valid" /\ cache_key \in DOMAIN course_cache
              /\ course_cache[cache_key].timestamp = now)
          => /\ pc' = "idle"
             /\ result' = course_cache[cache_key].courses
       /\ (pc = "idle" /\ pc' = "valid"
              /\ Stale(course_cache, CacheKey(career', user_level'), now))
          => ~_is_cache_valid(course_cache', CacheKey(career', user_level'), now)
       /\ (pc = "valid" /\ pc' # "valid" /\ Stale(course_cache, cache_key, now))
          => pc' = "youtube"
      ]_vars

\* C2's case: a second search of a key, at the time of the write, has returned the
\* stored list.
C2_Witness ==
    /\ Returned("hit")
    /\ LastEvent.age = 0
    /\ result = course_cache[cache_key].courses
    /\ Len(result) > 2

\* C3: a call that misses runs both providers over their terms, the fallback check
\* and the ranking, in that order, and then sets the entry of its key to the list it
\* returns and the time of the write; no other step adds an entry or changes one.
PipelineRan ==
    LET core == SelectSeq(log, LAMBDA e : e.ev \notin {"evict", "sleep"})
        n    == Len(Take(Terms, 2))
    IN  /\ Len(core) = n + 4
        /\ core[1].ev = "miss"
        /\ \A i \in 1..n : /\ core[1 + i].ev = "fetch"
                           /\ core[1 + i].provider = "YouTube"
                           /\ core[1 + i].term = Terms[i]
        /\ core[n + 2].ev = "fetch"
        /\ core[n + 2].provider = "GitHub"
        /\ core[n + 2].term = Terms[1]
        /\ core[n + 3].ev = "fallback"
        /\ core[n + 4].ev = "rank"

C3_WholesaleReplacement ==
    [][/\ \A k \in DOMAIN course_cache' :
             \/ k \in DOMAIN course_cache /\ course_cache'[k] = course_cache[k]
             \/ /\ pc = "store" /\ pc' = "idle"
                /\ k = cache_key
                /\ course_cache'[k] = [courses |-> result', timestamp |-> now]
                /\ result' = Take(ranked_courses, TopN)
       /\ (pc = "valid" /\ pc' # "valid" /\ ~_is_cache_valid(course_cache, cache_key, now))
          => pc' = "youtube" /\ log' = Append(log, [ev |-> "miss"])
       /\ (pc # "idle" /\ pc' = "idle" /\ LogHas("miss"))
          => /\ pc = "store"
             /\ PipelineRan
             /\ course_cache'[cache_key] = [courses |-> result', timestamp |-> now]
      ]_vars

\* C3's case: a miss has replaced an entry that was still in the cache.
C3_Witness ==
    /\ Returned("store")
    /\ LastEvent.replaced
    /\ course_cache[cache_key] = [courses |-> result, timestamp |-> LastEvent.timestamp]

\* C4: a call that hits returns the cached list, fetches nothing and leaves the
\* cache as it was, the entry's timestamp included; an entry's timestamp changes
\* only when a miss writes the entry, so a hit is served less than 1 week after the
\* write whatever the number of hits before it.
C4_HitLeavesCacheUnchanged ==
    [][/\ (pc = "valid" /\ pc' = "idle")
          => /\ result' = course_cache[cache_key].courses
             /\ course_cache' = course_cache
             /\ ~LogHas("fetch")'
             /\ now - course_cache[cache_key].timestamp < Week
       /\ (pc = "idle" /\ pc' = "valid"
              /\ _is_cache_valid(course_cache, CacheKey(career', user_level'), now))
          => course_cache' = course_cache
       /\ \A k \in DOMAIN course_cache \cap DOMAIN course_cache' :
             course_cache'[k].timestamp # course_cache[k].timestamp
                => pc = "store" /\ k = cache_key
      ]_vars

\* C4's case: an entry has been served some days after it was written and still has
\* the timestamp of the write.
C4_Witness ==
    /\ Returned("hit")
    /\ LastEvent.age > 0
    /\ course_cache[cache_key].timestamp = now - LastEvent.age
    /\ result = course_cache[cache_key].courses

----------------------------------------------------------------------------
(* Failures of the sources, and the fallback. *)

\* C5: whatever fetches fail, the video provider is asked for each of its terms
\* and the repository provider for its term, and the pool holds the courses of the
\* fetches that succeeded and nothing from a fetch that failed.
C5_FailedFetchSkipped ==
    pc = "fallback" =>
        /\ FetchedTerms("YouTube") = Take(Terms, 2)
        /\ FetchedTerms("GitHub") = Take(Terms, 1)
        /\ Len(all_courses) = SumFound(Fetches("YouTube")) + SumFound(Fetches("GitHub"))
        /\ \A i \in 1..Len(all_courses) :
              \E j \in 1..Len(log) :
                 /\ log[j].ev = "fetch"
                 /\ log[j].error = "none"
                 /\ log[j].provider = all_courses[i].provider
                 /\ log[j].term = all_courses[i].searched_for
        /\ \A j \in 1..Len(log) :
              (log[j].ev = "fetch" /\ log[j].error # "none") => log[j].found = 0

\* C5's case: the first fetch of the video provider has failed, its second fetch
\* and the fetch of the repository provider have brought courses.
C5_Witness ==
    /\ pc = "fallback"
    /\ Len(Fetches("YouTube")) = 2
    /\ Fetches("YouTube")[1].error # "none"
    /\ Fetches("YouTube")[2].error = "none"
    /\ Fetches("YouTube")[2].found > 0
    /\ Fetches("GitHub")[1].found > 0
    /\ Len(all_courses) = Fetches("YouTube")[2].found + Fetches("GitHub")[1].found

\* the steps a call has left at most: the lookup, 2 fetches of the video provider,
\* 1 of the repository provider, the fallback check, the ranking, the write
Remaining ==
    CASE pc = "idle"     -> 0
      [] pc = "valid"    -> 7
      [] pc = "youtube"  -> Len(ProviderTerms("YouTube")) - termIdx + 5
      [] pc = "github"   -> Len(ProviderTerms("GitHub")) - termIdx + 4
      [] pc = "fallback" -> 3
      [] pc = "rank"     -> 2
      [] pc = "store"    -> 1
      [] OTHER           -> 8

\* C6: whatever fetches fail, a call of search_courses comes to its return: no
\* step ends it with an exception, every step brings the return nearer, a loop
\* that is entered has a term to fetch; and the list returned is not empty.
C6_SearchReturnsNonEmpty ==
    [][pc # "idle" =>
          /\ pc' \in {"youtube", "github", "fallback", "rank", "store", "idle"}
          /\ Remaining' < Remaining
          /\ pc' = "youtube" => termIdx' \in 1..Len(ProviderTerms("YouTube")')
          /\ pc' = "github" => termIdx' \in 1..Len(ProviderTerms("GitHub")')
          /\ pc' = "idle" => result' # <<>>
      ]_vars

\* C6's case: every fetch of a search has failed and the search has returned.
C6_Witness ==
    /\ Returned("store")
    /\ Len(Fetches("YouTube")) = 2
    /\ \A j \in 1..Len(log) : log[j].ev = "fetch" => log[j].error # "none"
    /\ result # <<>>

\* C7: a search whose providers bring no course returns the 2 fallback courses and
\* nothing else, with their scores, the higher score first.
C7_FallbackOnly ==
    (Returned("store") /\ Event("fallback").pool = 0) =>
        LET fb == _get_fallback_courses(career, user_level)
        IN  /\ Len(result) = 2
            /\ result[1] = [fb[1] EXCEPT !.score = 1175]
            /\ result[2] = [fb[2] EXCEPT !.score = 1155]
            /\ result[1].provider = "Career Guidance"
            /\ result[2].provider = "Skills Academy"

\* C7's case: every fetch of a search has succeeded, no page had a course on it, and
\* the search has returned.
C7_Witness ==
    /\ Returned("store")
    /\ Event("fallback").pool = 0
    /\ \A j \in 1..Len(log) : log[j].ev = "fetch" => log[j].error = "none"
    /\ Len(result) = 2
    /\ result[1].score > result[2].score

\* C8: the fallback check adds the 2 fallback courses to a pool of fewer than 20
\* courses and nothing to a pool of 20 or more; the courses added are ranked with
\* the others.
C8_FallbackBelowThreshold ==
    /\ (pc \in {"rank", "store"} /\ LogHas("fallback")) =>
          LET e     == Event("fallback")
              added == SelectSeq(all_courses, IsFallback)
          IN  /\ e.pool < 20 => e.added = 2
              /\ e.pool >= 20 => e.added = 0
              /\ Len(added) = e.added
              /\ Len(all_courses) = e.pool + e.added
    /\ (pc = "store" /\ LogHas("fallback")) =>
          /\ Len(SelectSeq(ranked_courses, IsFallback)) = Event("fallback").added
          /\ Len(ranked_courses) = Event("fallback").pool + Event("fallback").added

\* C8's case: a pool of exactly 20 courses has been ranked without fallback courses.
C8_Witness ==
    /\ pc = "store"
    /\ LogHas("fallback")
    /\ Event("fallback").pool = 20
    /\ Len(ranked_courses) = 20
    /\ SelectSeq(ranked_courses, IsFallback) = <<>>

----------------------------------------------------------------------------
(* Ranking and truncation. *)

\* C9: a search returns the first 5 courses of the ranking of the whole pool, or
\* all of them when there are fewer; no course left out has a higher score than a
\* course returned; the cache gets the list returned.
C9_TopFiveReturned ==
    [][(pc = "store" /\ pc' = "idle") =>
          /\ Len(result') <= 5
          /\ Len(result') = Min(5, Len(all_courses))
          /\ IsPermutation(ranked_courses, all_courses)
          /\ result' = SubSeq(ranked_courses, 1, Len(result'))
          /\ \A i \in (Len(result') + 1)..Len(ranked_courses) :
                \A j \in 1..Len(result') : ranked_courses[i].score <= result'[j].score
          /\ course_cache'[cache_key].courses = result'
      ]_vars

\* C9's case: a search has ranked more than 5 courses and returned 5.
C9_Witness ==
    /\ Returned("store")
    /\ LastEvent.ranked > 5
    /\ Len(result) = 5
    /\ course_cache[cache_key].courses = result

\* C10: the ranking holds the courses of the pool, each as often as the pool does,
\* in an order in which no score is higher than the one before it; the ranking of an
\* empty pool is empty.
C10_RankedDescending ==
    pc = "store" =>
        /\ IsPermutation(ranked_courses, all_courses)
        /\ IsDescending(ranked_courses)
        /\ all_courses = <<>> => ranked_courses = <<>>

\* C10's case: a ranking that is not in the order of the pool.
C10_Witness ==
    /\ pc = "store"
    /\ Len(ranked_courses) > 3
    /\ ranked_courses # all_courses
    /\ ranked_courses[1].score > ranked_courses[Len(ranked_courses)].score

----------------------------------------------------------------------------
(* The decision tree. *)

Called == navigated # <<>>

ValidRating(r) == r >= 0 /\ r <= 100

\* the call was on a node of the tree with a rating in [0.0, 1.0]
CalledOnNode == Called /\ navigated.current_node \in DOMAIN tree /\ ValidRating(navigated.user_input)

NavigatedFrom(node, r, to) ==
    (Called /\ navigated.current_node = node /\ navigated.user_input = r)
        => navigated.returned = to

\* C15: on a node of the tree and a rating in [0.0, 1.0], navigate_tree returns the
\* next of the first answer, in the order of declaration, whose threshold is at most
\* the rating: Math with 0.8 gives Math_High, Math_High with 0.9 gives HighProg,
\* HighProg with 0.7 gives Data Scientist.
C15_FirstDeclaredEdge ==
    /\ CalledOnNode =>
          LET answers == tree[navigated.current_node].answers
              r       == navigated.user_input
          IN  \E i \in 1..Len(answers) :
                 /\ answers[i].threshold <= r
                 /\ \A j \in 1..(i - 1) : answers[j].threshold > r
                 /\ navigated.returned = answers[i].next
    /\ NavigatedFrom("Math", 80, "Math_High")
    /\ NavigatedFrom("Math_High", 90, "HighProg")
    /\ NavigatedFrom("HighProg", 70, "Data Scientist")

\* C15's case: a rating that is exactly the threshold of the first answer.
C15_Witness ==
    /\ Called
    /\ navigated.current_node = "Math"
    /\ navigated.user_input = 70
    /\ navigated.returned = "Math_High"
    /\ current_node = "Math_High"

\* C16: on a node of the tree and a rating in [0.0, 1.0], navigate_tree returns a
\* node of the tree or one of the 12 careers, and the same one whenever it is called
\* with that node and rating.
C16_ReturnsNodeOrCareer ==
    CalledOnNode =>
        /\ navigated.returned \in DOMAIN tree \cup CareerLabels
        /\ navigated.returned = navigate_tree(navigated.current_node, navigated.user_input)
        /\ current_node = navigated.returned

\* C16's case: the rating 1.0 on a node of the last level.
C16_Witness ==
    /\ CalledOnNode
    /\ navigated.user_input = 100
    /\ navigated.current_node = "LowHands"
    /\ navigated.returned = "Technician"

\* C17: on an identifier that is no node of the tree navigate_tree returns the
\* identifier, so the assessment stays on a career however often it is called.
C17_TerminalUnchanged ==
    [][(current_node \notin DOMAIN tree /\ navigated' # navigated) =>
          /\ navigated'.current_node = current_node
          /\ navigated'.returned = current_node
          /\ current_node' = current_node
      ]_vars

\* C17's case: a second call on a career.
C17_Witness ==
    /\ Called
    /\ navigated.current_node = "Data Scientist"
    /\ ValidRating(navigated.user_input)
    /\ navigated.user_input > 0
    /\ navigated.returned = "Data Scientist"
    /\ current_node = "Data Scientist"

\* C18 as claimed: navigate_tree with a rating below 0.0 or above 1.0 fails with an
\* invalid-input error and returns no node.
C18_InvalidRatingFails ==
    (Called /\ ~ValidRating(navigated.user_input)) =>
        navigated.returned = "InvalidInputError"

----------------------------------------------------------------------------
(* The order of the steps of a search. *)

\* the stage of search_courses an event of the log belongs to
StageOf(e) ==
    CASE e.ev = "evict"                             -> 0
      [] e.ev \in {"hit", "miss"}                   -> 1
      [] e.ev \in {"fetch", "sleep"} /\ e.provider = "YouTube" -> 2
      [] e.ev \in {"fetch", "sleep"} /\ e.provider = "GitHub"  -> 3
      [] e.ev = "fallback"                          -> 4
      [] e.ev = "rank"                              -> 5
      [] e.ev = "store"                             -> 6

CountOf(kind) == Cardinality({i \in 1..Len(log) : log[i].ev = kind})

\* C19 as claimed: between every two consecutive fetches of a search to the same
\* provider there is the sleep of 2 seconds, whether the first succeeded or failed.
C19_DelayBetweenFetches ==
    \A i, j \in 1..Len(log) :
        (/\ i < j
         /\ log[i].ev = "fetch"
         /\ log[j].ev = "fetch"
         /\ log[i].provider = log[j].provider
         /\ \A k \in (i + 1)..(j - 1) :
               ~(log[k].ev = "fetch" /\ log[k].provider = log[i].provider))
        => \E k \in (i + 1)..(j - 1) :
               log[k].ev = "sleep" /\ log[k].provider = log[i].provider

\* C20: a search is one sequence of steps: the fetches are made one per iteration of
\* a loop, those of the video provider all before the one of the repository
\* provider; the fallback check, the ranking and the cache write come once each, in
\* this order, after every fetch.
C20_SequentialPipeline ==
    /\ \A i, j \in 1..Len(log) : i < j => StageOf(log[i]) <= StageOf(log[j])
    /\ pc = "youtube" =>
          /\ Len(Fetches("YouTube")) = termIdx - 1
          /\ Fetches("GitHub") = <<>>
    /\ pc = "github" =>
          /\ Len(Fetches("YouTube")) = Len(Take(Terms, 2))
          /\ Len(Fetches("GitHub")) = termIdx - 1
    /\ LogHas("fallback") =>
          /\ FetchedTerms("YouTube") = Take(Terms, 2)
          /\ FetchedTerms("GitHub") = Take(Terms, 1)
    /\ CountOf("fallback") <= 1 /\ CountOf("rank") <= 1 /\ CountOf("store") <= 1
    /\ LogHas("rank") => LogHas("fallback")
    /\ LogHas("store") => LogHas("rank")
    /\ pc \in {"youtube", "github", "fallback"} => ~LogHas("fallback")
    /\ pc = "rank" => LogHas("fallback") /\ ~LogHas("rank")
    /\ pc = "store" => LogHas("rank") /\ ~LogHas("store")

\* C20's case: a search with 2 fetches of the video provider, one of them failed,
\* has fetched from the repository provider and returned.
C20_Witness ==
    /\ Returned("store")
    /\ Len(Fetches("YouTube")) = 2
    /\ Fetches("YouTube")[2].error # "none"
    /\ Len(Fetches("GitHub")) = 1
    /\ Fetches("GitHub")[1].error = "none"
    /\ CountOf("sleep") = 2

----------------------------------------------------------------------------
(* The scores and the order of the ranking. *)

IsSubstring(sub, s) ==
    \E i \in 0..(Len(s) - Len(sub)) : \A k \in 1..Len(sub) : s[i + k] = sub[k]

\* the words of s: its longest runs of characters that are not whitespace
Tokens(s) ==
    {SubSeq(s, i, j) : <<i, j>> \in
        {ij \in (1..Len(s)) \X (1..Len(s)) :
            /\ ij[1] <= ij[2]
            /\ \A k \in ij[1]..ij[2] : ~IsSpaceChar(s[k])
            /\ (ij[1] = 1 \/ IsSpaceChar(s[ij[1] - 1]))
            /\ (ij[2] = Len(s) \/ IsSpaceChar(s[ij[2] + 1]))}}

\* the relevance the spec gives a course, in tenths
RelevanceTenths(course, c) ==
    LET title == Lower(Get(course, "title", <<>>))
        label == Lower(c)
    IN  IF IsSubstring(label, title) THEN 20
        ELSE IF \E word \in Tokens(label) : IsSubstring(word, title) THEN 15
        ELSE 5

\* the five sub-scores of a course added up, in units of 1/50000
SumOfSubScores(course, c) ==
    LET provider   == CASE course.provider = "YouTube"         -> 15
                        [] course.provider = "GitHub"          -> 12
                        [] course.provider = "Career Guidance" -> 8
                        [] course.provider = "Skills Academy"  -> 8
                        [] OTHER                               -> 5
        rating     == IF "rating" \in DOMAIN course THEN course.rating ELSE 40
        enrollment == IF "enrollment_count" \in DOMAIN course
                      THEN course.enrollment_count ELSE 0
        price      == IF "price" \in DOMAIN course /\ course.price = "Free" THEN 20 ELSE 5
    IN  5000 * provider + 7500 * rating
            + (IF enrollment > 100000 THEN 100000 ELSE enrollment)
            + 5000 * price + 5000 * RelevanceTenths(course, c)

\* score, in hundredths, is the sum rounded to 2 decimals
IsRounded(score, sum) ==
    /\ 2 * (500 * score - sum) <= 500
    /\ 2 * (sum - 500 * score) <= 500

SameOrderAmongEqual(ranked, pool) ==
    \A i \in 1..Len(pool) :
        SelectSeq(ranked, LAMBDA x : x.score = pool[i].score)
            = SelectSeq(pool, LAMBDA x : x.score = pool[i].score)

\* C11: the courses of equal score are in the ranking in the order they have in the
\* list ranked, and ranking the list again gives the same ranking and the same
\* scores.
C11_StableDeterministic ==
    [][/\ (pc = "rank" /\ pc' = "store")
          => SameOrderAmongEqual(ranked_courses', all_courses')
       /\ (pc = "store" /\ log' # log)
          => /\ ranked_courses' = ranked_courses
             /\ all_courses' = all_courses
      ]_vars

\* C11's case: a video course, a repository course and a fallback course of equal
\* score, ranked twice, are in this order.
C11_Witness ==
    /\ pc = "store"
    /\ Len(log) = 2
    /\ Len(ranked_courses) = 3
    /\ ranked_courses[1].provider = "YouTube"
    /\ ranked_courses[2].provider = "GitHub"
    /\ ranked_courses[3].provider = "Skills Academy"
    /\ \A i \in 1..3 : ranked_courses[i].score = 1155
    /\ ranked_courses = all_courses

\* C12: the score the ranking stores in a course is the sum, rounded to 2 decimals,
\* of the provider's score (0.5 for a provider not in the table), 1.5 times the
\* rating (4.0 if there is none), min(enrollment / 50000, 2), 2.0 for the price
\* "Free" and 0.5 for any other, and the relevance; the video course with rating
\* 4.9, 200000 enrolled, free, the career in its title, scores higher than the
\* course of an unknown provider with rating 4.3, 15000 enrolled, free.
C12_ScoreIsSumOfSubScores ==
    pc = "store" =>
        /\ \A i \in 1..Len(all_courses) :
              /\ "score" \in DOMAIN all_courses[i]
              /\ IsRounded(all_courses[i].score, SumOfSubScores(all_courses[i], career))
        /\ \A i \in 1..Len(ranked_courses) :
              IsRounded(ranked_courses[i].score, SumOfSubScores(ranked_courses[i], career))
        /\ (Len(all_courses) = 2 /\ all_courses[1].provider = "Udemy"
               /\ Get(all_courses[2], "enrollment_count", 0) = 200000
               /\ Get(all_courses[2], "rating", 0) = 49)
           => /\ ranked_courses[1].provider = "YouTube"
              /\ ranked_courses[1].score = 1485
              /\ ranked_courses[2].score = 975

\* C12's case: the two courses of the comparison, ranked.
C12_Witness ==
    /\ pc = "store"
    /\ Len(all_courses) = 2
    /\ all_courses[1].provider = "Udemy"
    /\ all_courses[1].score = 975
    /\ all_courses[2].provider = "YouTube"
    /\ all_courses[2].score = 1485
    /\ ranked_courses = <<all_courses[2], all_courses[1]>>

OnlyRatingDiffers(a, b) ==
    /\ "rating" \in DOMAIN a /\ "rating" \in DOMAIN b
    /\ [b EXCEPT !.rating = a.rating, !.score = a.score] = a

PaidMadeFree(a, b) ==
    /\ "price" \in DOMAIN a /\ "price" \in DOMAIN b
    /\ a.price = "Paid" /\ b.price = "Free"
    /\ [b EXCEPT !.price = "Paid", !.score = a.score] = a

C14_RelevanceThreeValues ==
    \A i \in 1..Len(all_courses) :
        /\ _calculate_relevance_score(all_courses[i], career)
              = 5000 * RelevanceTenths(all_courses[i], career)
        /\ _calculate_relevance_score(all_courses[i], career) \in {100000, 75000, 25000}

\* C14's case: a title in upper case with a word of the career and not the career.
C14_Witness ==
    /\ pc = "store"
    /\ career = DataScientist
    /\ Len(all_courses) = 1
    /\ Get(all_courses[1], "title", <<>>) = ChefsTitle
    /\ _calculate_relevance_score(all_courses[1], career) = 75000
    /\ ~IsSubstring(Lower(career), Lower(ChefsTitle))

----------------------------------------------------------------------------
(* The queries and the candidates of a search. *)

\* the queries the spec builds for a career and a level, as a set
ExpectedQueries(c, level) ==
    LET bases  == IF c \in DOMAIN career_keywords
                  THEN {career_keywords[c][1], career_keywords[c][2]}
                  ELSE {Lower(c)}
        levels == IF level \in DOMAIN level_keywords
                  THEN {level_keywords[level][1]}
                  ELSE {}
    IN  bases \cup {base \o <<" ">> \o level_term : base \in bases, level_term \in levels}

\* C22: the list _get_search_terms returns has no duplicates and holds exactly the
\* queries built from the first 2 base phrases of the career and the first level
\* phrase of the level, each base phrase alone and each followed by the level
\* phrase, 4 at most; an unknown career has its lower-cased label as only base
\* phrase, an unknown level gives no level phrase.
C22_QueriesBuilt ==
    pc \in {"youtube", "github"} =>
        /\ Range(search_terms) = ExpectedQueries(career, user_level)
        /\ Cardinality(Range(search_terms)) = Len(search_terms)
        /\ Len(search_terms) <= 4

\* C22's case: the 4 queries of a known career and a known level.
C22_Witness ==
    /\ pc = "youtube"
    /\ career = DataScientist
    /\ user_level = Beginner
    /\ Len(search_terms) = 4
    /\ Range(search_terms) = {<<"d","a","t","a"," ","s","c","i","e","n","c","e">>, <<"d","a","t","a"," ","s","c","i","e","n","c","e"," ","b","e","g","i","n","n","e","r">>,
                              <<"m","a","c","h","i","n","e"," ","l","e","a","r","n","i","n","g">>, <<"m","a","c","h","i","n","e"," ","l","e","a","r","n","i","n","g"," ","b","e","g","i","n","n","e","r">>}

AllFetches == SelectSeq(log, LAMBDA e : e.ev = "fetch")

\* the candidates gathered from the two providers so far
RealCandidates == SelectSeq(all_courses \o courses, LAMBDA course : ~IsFallback(course))

\* C23: a search sends at most 2 queries to the video provider and at most 1 to
\* the repository provider, a video query gives at most 3 candidates and a
\* repository query at most 2: at most 3 fetches and 8 real candidates in all.
C23_BoundedFetches ==
    /\ Len(Fetches("YouTube")) <= 2
    /\ Len(Fetches("GitHub")) <= 1
    /\ \A i \in 1..Len(Fetches("YouTube")) : Fetches("YouTube")[i].found <= 3
    /\ \A i \in 1..Len(Fetches("GitHub")) : Fetches("GitHub")[i].found <= 2
    /\ Len(AllFetches) <= 3
    /\ Len(RealCandidates) <= 8

\* C23's case: 3 fetches that gave 3, 3 and 2 candidates.
C23_Witness ==
    /\ pc = "fallback"
    /\ Len(AllFetches) = 3
    /\ Len(RealCandidates) = 8

\* C25: for a fixed career and level the queries sent to a provider, the first 2
\* of the generated list for the video provider and the first for the repository
\* provider, are the same whatever order the deduplicating set is iterated in.
C25_QueriesIndependentOfSetOrder ==
    \A seed \in 0..MaxHashSeed :
        LET terms   == _get_search_terms(career, user_level, seed)
            youtube == FetchedTerms("YouTube")
            github  == FetchedTerms("GitHub")
        IN  /\ \A i \in 1..Len(youtube) : youtube[i] = Take(terms, 2)[i]
            /\ \A i \in 1..Len(github) : github[i] = Take(terms, 1)[i]

----------------------------------------------------------------------------
(* The shape of the decision tree. *)

\* the nodes the answers of a node lead to
Successors(node) ==
    IF node \in DOMAIN tree
    THEN {tree[node].answers[i].next : i \in 1..Len(tree[node].answers)}
    ELSE {}

\* the nodes reached from a set of nodes in 1 to n steps
RECURSIVE ReachedIn(_, _)
ReachedIn(nodes, n) ==
    IF n = 0 THEN {}
    ELSE LET step == UNION {Successors(node) : node \in nodes}
         IN  step \cup ReachedIn(step, n - 1)

Acyclic == \A node \in DOMAIN tree : node \notin ReachedIn({node}, Cardinality(DOMAIN tree))

HasCatchAll(node) ==
    \E i \in 1..Len(tree[node].answers) : tree[node].answers[i].threshold = 0

\* C26: the tree is acyclic and every node with answers has an answer of threshold
\* 0.0, so on a node of the tree and a rating in [0.0, 1.0] navigate_tree never
\* returns the node it was called on.
C26_NoStallOnDefaultTree ==
    /\ Acyclic
    /\ \A node \in DOMAIN tree : HasCatchAll(node)
    /\ CalledOnNode => navigated.returned # navigated.current_node

\* C26's case: a rating below every other threshold, taken by the answer of
\* threshold 0.0.
C26_Witness ==
    /\ CalledOnNode
    /\ navigated.current_node = "Math"
    /\ navigated.user_input = 0
    /\ navigated.returned = "Math_Low"
    /\ current_node = "Math_Low"

----------------------------------------------------------------------------
(* The titles of the candidates. *)

\* the matches of the pages a provider answers
Matches(pages) == UNION {Range(page) : page \in pages}

\* the match a candidate was built from
YouTubeMatchOf(course) ==
    CHOOSE match \in Matches(YouTubePages) :
        course.url = "https://www.youtube.com/watch?v=" \o match[1]

GitHubMatchOf(course) ==
    CHOOSE match \in Matches(GitHubPages) : course.url = "https://github.com" \o match[1]

ExtractedTitle(course) ==
    IF course.provider = "YouTube" THEN YouTubeMatchOf(course)[2] ELSE GitHubMatchOf(course)[2]

LearningKeywords(course) ==
    IF course.provider = "YouTube" THEN YouTubeKeywords ELSE GitHubKeywords

\* C27: every candidate a parser keeps has an extracted title longer than 15
\* characters that contains, whatever the case, a keyword of its provider's list.
C27_KeptTitlesLongWithKeyword ==
    \A i \in 1..Len(RealCandidates) :
        LET title == ExtractedTitle(RealCandidates[i])
        IN  /\ Len(title) > 15
            /\ \E k \in 1..Len(LearningKeywords(RealCandidates[i])) :
                  IsSubstring(LearningKeywords(RealCandidates[i])[k], Lower(title))

IsAlnum(c) == IsAlpha(c) \/ c \in DigitSet

Normalized(title) ==
    /\ \A i \in 1..Len(title) : IsAlnum(title[i]) \/ title[i] = " "
    /\ \A i \in 1..(Len(title) - 1) : ~(title[i] = " " /\ title[i + 1] = " ")
    /\ title # <<>> => title[1] # " " /\ title[Len(title)] # " "

\* C28: the title of every candidate a parser produces is normalized: each of its
\* characters is alphanumeric or a space, no two spaces follow each other and it
\* neither starts nor ends with whitespace.
C28_TitlesNormalized ==
    \A i \in 1..Len(RealCandidates) : Normalized(RealCandidates[i].title)

----------------------------------------------------------------------------
(* search_courses called with arbitrary strings: the keys of the cache. *)

\* career: str, with and without the character that joins the key
KeyCareers == {<<"a","_","b">>, <<"a">>}

\* user_level: str, which nothing checks against the three levels
KeyLevels == {<<"c">>, <<"b","_","c">>}

\* Searches for any of the pairs at any times, the providers failing.
KeyNext ==
    \/ Tick
    \/ \E c \in KeyCareers, level \in KeyLevels : EvictStale(c, level)
    \/ ReturnCached
    \/ StartFresh
    \/ SearchYouTubeFails("URLError")
    \/ SearchGitHubFails("URLError")
    \/ FallbackCheck
    \/ RankCourses
    \/ StoreAndReturn

KeySpec == Init /\ [][KeyNext]_vars

\* the courses are those of a search for the career and the level
CoursesOf(found, c, level) ==
    \A i \in 1..Len(found) :
        IsFallback(found[i]) =>
            \E k \in 1..Len(_get_fallback_courses(c, level)) :
                found[i].title = _get_fallback_courses(c, level)[k].title

\* C30: two calls of search_courses with different pairs of career and level, any
\* strings, share no entry of the cache: a call is never answered from the entry a
\* call with another pair stored, and never overwrites it.
C30_EntriesNotShared ==
    /\ [](Returned("hit") => CoursesOf(result, career, user_level))
    /\ [][(pc = "store" /\ pc' = "idle" /\ cache_key \in DOMAIN course_cache) =>
              CoursesOf(course_cache[cache_key].courses, career, user_level)]_vars

----------------------------------------------------------------------------
(* The window: CareerAdvisorApp.  The main loop of the window runs the       *)
(* handlers one at a time; the background thread runs search_courses.        *)

\* what the user types into self.entry
EntryTexts ==
    {<<"0",".","8">>,
     <<"0",".","4","5">>,
     <<"1",".","5">>,
     <<"-","0",".","2">>,
     <<"a","b","c">>,
     <<"n","a","n">>}

\* float(text) for a text in decimal notation: [ok, nan, value], the value in
\* hundredths, digits after the second decimal dropped.  ok is FALSE where float
\* raises ValueError.  Exponents, "inf" and digit separators are not modelled.
ParseFloat(text) ==
    LET s        == Strip(text)
        signed   == s # <<>> /\ s[1] \in {"+", "-"}
        sign     == IF s # <<>> /\ s[1] = "-" THEN -1 ELSE 1
        u        == IF signed THEN Tail(s) ELSE s
        dots     == {i \in 1..Len(u) : u[i] = "."}
        dot      == IF dots = {} THEN Len(u) + 1 ELSE CHOOSE i \in dots : TRUE
        whole    == SubSeq(u, 1, dot - 1)
        fraction == SubSeq(u, dot + 1, Len(u))
        Digit(c) == CHOOSE d \in 0..9 : DigitChars[d + 1] = c
        Value(digits) ==
            LET RECURSIVE Val(_, _)
                Val(ds, acc) == IF ds = <<>> THEN acc
                                ELSE Val(Tail(ds), 10 * acc + Digit(Head(ds)))
            IN  Val(digits, 0)
        AllDigits(ds) == \A i \in 1..Len(ds) : ds[i] \in DigitSet
    IN  IF Lower(u) = <<"n","a","n">>
        THEN [ok |-> TRUE, nan |-> TRUE, value |-> 0]
        ELSE IF /\ Cardinality(dots) <= 1
                /\ AllDigits(whole)
                /\ AllDigits(fraction)
                /\ Len(whole) + Len(fraction) > 0
             THEN [ok |-> TRUE, nan |-> FALSE,
                   value |-> sign * (100 * Value(whole) + Value(Take(fraction \o <<"0","0">>, 2)))]
             ELSE [ok |-> FALSE, nan |-> FALSE, value |-> 0]

\* a rating taken whatever its value
RatingAccepted(rating) == rating.ok

\* lines 832-836: float() returned and 0.0 <= rating <= 1.0, which is false of nan
RatingInRange(rating) == rating.ok /\ ~rating.nan /\ 0 <= rating.value /\ rating.value <= 100

\* skill_map.get(node, "General Skills")
extract_skill_name(node) ==
    Get("Math" :> "Mathematics" @@
        "Math_High" :> "Advanced Math" @@
        "Math_Med" :> "Intermediate Math" @@
        "Math_Low" :> "Basic Math" @@
        "HighProg" :> "Programming" @@
        "HighPhys" :> "Physics/Engineering" @@
        "MedDesign" :> "Design/Creativity" @@
        "MedBio" :> "Biology/Health" @@
        "LowComm" :> "Communication" @@
        "LowHands" :> "Technical Skills",
        node, "General Skills")

\* the text of a career label, character by character
CareerChars(label) ==
    LET RECURSIVE Text(_)
        Text(chars) == IF chars = <<>> THEN "" ELSE Head(chars) \o Text(Tail(chars))
    IN  CHOOSE c \in DOMAIN career_keywords : Text(c) = label

\* the user edits the entry, which the question frame shows
TypeEntry(text) ==
    /\ screen = "question"
    /\ entry' = text
    /\ UNCHANGED <<user_skills, recommended_career, screen, dialog, thread, after_queue>>
    /\ UNCHANGED <<searchVars, current_node, navigated, calls>>

\* lines 829-849, with show_question (815-827) and, on a career, show_loading and
\* start_real_search (875-905): the button "Next Step" or the Return key
process_answer ==
    LET rating == ParseFloat(entry)
        next   == navigate_tree(current_node, rating.value)
    IN  /\ screen = "question"
        /\ IF ~RatingInRange(rating)
           THEN /\ dialog' = "Invalid Input"
                /\ UNCHANGED <<entry, user_skills, recommended_career, screen, thread,
                               current_node, navigated>>
           ELSE /\ user_skills' = Put(user_skills, extract_skill_name(current_node), rating.value)
                /\ current_node' = next
                /\ navigated' = [current_node |-> current_node, user_input |-> rating.value,
                                 returned |-> next]
                /\ IF next \in DOMAIN tree
                   THEN /\ entry' = <<>>
                        /\ UNCHANGED <<recommended_career, screen, thread>>
                   ELSE /\ recommended_career' = next
                        /\ screen' = "loading"
                        /\ thread' = [state |-> "running", career |-> next, called |-> searches]
                        /\ UNCHANGED entry
                /\ UNCHANGED dialog
        /\ UNCHANGED <<after_queue, searchVars, calls>>

\* lines 916-919: the thread computes the market data, which changes nothing, and
\* enters search_courses(career) with the default level
ThreadCallsSearch ==
    /\ thread.state = "running"
    /\ searches = thread.called
    /\ EvictStale(CareerChars(thread.career), Beginner)

\* an exception that leaves search_courses: print (line 195 or 198) raises
\* UnicodeEncodeError on a standard output that cannot encode the text
SearchRaises ==
    /\ thread.state = "running"
    /\ pc = "valid"
    /\ pc' = "idle"
    /\ log' = Append(log, [ev |-> "raise", error |-> "UnicodeEncodeError"])
    /\ UNCHANGED <<now, hashSeed, course_cache, career, user_level, search_terms, termIdx,
                   courses, all_courses, ranked_courses, result, searches>>
    /\ UNCHANGED treeVars

\* lines 922-925: search_courses has returned or raised; the thread gives the
\* main loop a callback.  After show_results is queued the thread ends; after
\* show_error is queued it is still inside the except clause.
ThreadQueuesCallback ==
    /\ thread.state = "running"
    /\ searches = thread.called + 1
    /\ pc = "idle"
    /\ IF LastEvent.ev = "raise"
       THEN /\ after_queue' = Append(after_queue, [callback |-> "show_error",
                                                   error |-> LastEvent.error])
            /\ thread' = [thread EXCEPT !.state = "except"]
       ELSE /\ after_queue' = Append(after_queue, [callback |-> "show_results",
                                                   courses |-> result])
            /\ thread' = NoThread
    /\ UNCHANGED <<entry, user_skills, recommended_career, screen, dialog>>
    /\ UNCHANGED <<searchVars, current_node, navigated, calls>>

\* the end of the except clause (line 925), where Python unbinds e, and of the thread
ThreadLeavesExcept ==
    /\ thread.state = "except"
    /\ thread' = NoThread
    /\ UNCHANGED <<entry, user_skills, recommended_career, screen, dialog, after_queue>>
    /\ UNCHANGED <<searchVars, current_node, navigated, calls>>

\* lines 1150-1157, with show_question
restart ==
    /\ current_node' = "Math"
    /\ user_skills' = <<>>
    /\ recommended_career' = "None"
    /\ screen' = "question"
    /\ entry' = <<>>

\* The main loop runs the callback at the head of the queue.  show_results
\* (927-984) shows the results frame.  The other callback is
\* lambda: self.show_error(str(e)) (line 925): while the thread is inside the
\* except clause e is bound and show_error (1137-1148) shows the messagebox and
\* restarts; once the thread has left it e is unbound, the lambda raises
\* NameError, which Tk reports, and show_error is not called.
RunCallback ==
    /\ after_queue # <<>>
    /\ after_queue' = Tail(after_queue)
    /\ IF Head(after_queue).callback = "show_results"
       THEN /\ screen' = "results"
            /\ UNCHANGED <<entry, user_skills, recommended_career, dialog, current_node>>
       ELSE IF thread.state = "except"
            THEN /\ dialog' = "Search Error"
                 /\ restart
            ELSE UNCHANGED <<entry, user_skills, recommended_career, screen, dialog,
                             current_node>>
    /\ UNCHANGED <<thread, searchVars, navigated, calls>>

\* the button "Start New Assessment" of the results frame
Restart ==
    /\ screen = "results"
    /\ restart
    /\ UNCHANGED <<dialog, thread, after_queue, searchVars, navigated, calls>>

\* The user answers, the thread searches with the providers failing or raising,
\* the main loop runs what the thread queued.
AppNext ==
    \/ \E text \in EntryTexts : TypeEntry(text)
    \/ process_answer
    \/ ThreadCallsSearch
    \/ ReturnCached
    \/ StartFresh
    \/ SearchRaises
    \/ SearchYouTubeFails("URLError")
    \/ SearchGitHubFails("URLError")
    \/ FallbackCheck
    \/ RankCourses
    \/ StoreAndReturn
    \/ ThreadQueuesCallback
    \/ ThreadLeavesExcept
    \/ RunCallback
    \/ Restart

\* one process: the order of list(set(...)) is the same throughout
AppInit == Init /\ hashSeed = 0

AppSpec == AppInit /\ [][AppNext]_vars

\* the ratings 0.0, 0.1, ... 1.0 as the user types them
TenthTexts == {<<"0", ".", DigitChars[d + 1]>> : d \in 0..9} \cup {<<"1", ".", "0">>}

\* One assessment, from the first question on: the user types any of the texts
\* and presses "Next Step", until the window leaves the questions.
AssessmentNext ==
    \/ \E text \in EntryTexts \cup TenthTexts : TypeEntry(text)
    \/ process_answer

AssessmentSpec == AppInit /\ [][AssessmentNext]_vars

----------------------------------------------------------------------------
(* The handlers of the window and the thread. *)

\* texts that are no number or a number outside [0.0, 1.0]
InvalidTexts == {<<"1",".","5">>, <<"-","0",".","2">>, <<"a","b","c">>, <<"n","a","n">>, <<>>}

\* C24: when the entry holds a rating outside [0.0, 1.0] or no number,
\* process_answer shows the invalid-input error and changes nothing else:
\* current_node and user_skills stay as they were, navigate_tree is not called and
\* no search is started.
C24_InvalidInputLeavesState ==
    [][(/\ screen = "question"
        /\ thread.state = "none"
        /\ entry \in InvalidTexts
        /\ entry' = entry) =>
           /\ dialog' = "Invalid Input"
           /\ UNCHANGED <<current_node, user_skills, navigated, recommended_career, screen>>
           /\ UNCHANGED <<thread, after_queue, pc, searches>>
      ]_vars

\* C24's case: after one answer, a rating above 1.0 was refused.
C24_Witness ==
    /\ dialog = "Invalid Input"
    /\ entry = <<"1",".","5">>
    /\ screen = "question"
    /\ current_node = "Math_High"
    /\ user_skills = ("Mathematics" :> 80)
    /\ thread.state = "none"

\* what the user sees and the state of the assessment
uiVars == <<current_node, entry, user_skills, recommended_career, screen, dialog>>

\* a step of the background thread
ThreadStep ==
    \/ searchVars' # searchVars
    \/ Len(after_queue') > Len(after_queue)
    \/ thread.state = "except" /\ thread'.state = "none"

\* the main loop runs the callback of the given name
Runs(callback) ==
    /\ after_queue # <<>>
    /\ after_queue' = Tail(after_queue)
    /\ Head(after_queue).callback = callback

\* C29: the background thread changes nothing of the window or the assessment
\* itself; what it found, or the error if the search raised, reaches the main
\* loop through the queue of root.after, where show_results, or show_error and
\* restart, run.
C29_ThreadHandsOverToMainLoop ==
    /\ [][ThreadStep => UNCHANGED uiVars]_vars
    /\ [][Runs("show_results") => screen' = "results"]_vars
    /\ [][Runs("show_error") =>
             /\ dialog' = "Search Error"
             /\ screen' = "question"
             /\ current_node' = "Math"]_vars

----------------------------------------------------------------------------
(* search_courses called by several threads on one agent.  A caller stands   *)
(* at a line of search_courses; a step is one statement, the two checks      *)
(* _is_cache_too_old and _is_cache_valid taken as one statement each.  The   *)
(* cache and the clock are shared, all else is local to the caller.          *)

\* calls of search_courses started in all
MaxCalls == 3

\* what a step of a concurrent caller leaves alone
CallFrame ==
    /\ UNCHANGED <<hashSeed, pc, career, user_level, search_terms, termIdx, courses,
                   all_courses, ranked_courses, result, log>>
    /\ UNCHANGED <<current_node, navigated, appVars>>

\* the caller goes to the given line
Goto(caller, line) == calls' = [calls EXCEPT ![caller].pc = line]

\* the exception leaves search_courses
Raise(caller, error) == calls' = [calls EXCEPT ![caller].pc = "raised", ![caller].outcome = error]

\* line 185: the call, all callers with the same career and level
Invoke(caller) ==
    /\ calls[caller].pc = "idle"
    /\ searches < MaxCalls
    /\ searches' = searches + 1
    /\ calls' = [calls EXCEPT ![caller] = [pc |-> "188", key |-> CacheKey(DataScientist, Beginner),
                                           top_courses |-> <<>>, outcome |-> "none"]]
    /\ UNCHANGED <<now, course_cache>>
    /\ CallFrame

\* line 188
CheckTooOld(caller) ==
    /\ calls[caller].pc = "188"
    /\ Goto(caller, IF _is_cache_too_old(course_cache, calls[caller].key, now)
                    THEN "190" ELSE "194")
    /\ UNCHANGED <<now, course_cache, searches>>
    /\ CallFrame

\* line 190
CheckPresent(caller) ==
    /\ calls[caller].pc = "190"
    /\ Goto(caller, IF calls[caller].key \in DOMAIN course_cache THEN "191" ELSE "194")
    /\ UNCHANGED <<now, course_cache, searches>>
    /\ CallFrame

\* line 191: del self.course_cache[cache_key], KeyError if the key is gone
Evict(caller) ==
    /\ calls[caller].pc = "191"
    /\ IF calls[caller].key \in DOMAIN course_cache
       THEN /\ course_cache' = Del(course_cache, calls[caller].key)
            /\ Goto(caller, "194")
       ELSE /\ Raise(caller, "KeyError")
            /\ UNCHANGED course_cache
    /\ UNCHANGED <<now, searches>>
    /\ CallFrame

\* line 194
CheckValid(caller) ==
    /\ calls[caller].pc = "194"
    /\ Goto(caller, IF _is_cache_valid(course_cache, calls[caller].key, now)
                    THEN "195" ELSE "198")
    /\ UNCHANGED <<now, course_cache, searches>>
    /\ CallFrame

\* lines 195-196: self.course_cache[cache_key] read and returned, KeyError if the
\* key is gone
ReadCached(caller) ==
    /\ calls[caller].pc = "195"
    /\ IF calls[caller].key \in DOMAIN course_cache
       THEN calls' = [calls EXCEPT ![caller].pc = "idle", ![caller].outcome = "hit",
                                   ![caller].top_courses = course_cache[calls[caller].key].courses]
       ELSE Raise(caller, "KeyError")
    /\ UNCHANGED <<now, course_cache, searches>>
    /\ CallFrame

\* lines 198-220 with the providers failing: the ranked fallback courses
FreshSearch(caller) ==
    /\ calls[caller].pc = "198"
    /\ calls' = [calls EXCEPT ![caller].pc = "223",
                              ![caller].top_courses =
                                  Take(_rank_courses(AddFallback(<<>>, DataScientist, Beginner),
                                                     Beginner, DataScientist), TopN)]
    /\ UNCHANGED <<now, course_cache, searches>>
    /\ CallFrame

\* lines 223-229
WriteCache(caller) ==
    /\ calls[caller].pc = "223"
    /\ course_cache' = Put(course_cache, calls[caller].key,
                           [courses |-> calls[caller].top_courses, timestamp |-> now])
    /\ calls' = [calls EXCEPT ![caller].pc = "idle", ![caller].outcome = "fresh"]
    /\ UNCHANGED <<now, searches>>
    /\ CallFrame

\* The callers run at any speeds, any time apart.
ConcurrentNext ==
    \/ Tick
    \/ \E caller \in Callers :
          \/ Invoke(caller)
          \/ CheckTooOld(caller)
          \/ CheckPresent(caller)
          \/ Evict(caller)
          \/ CheckValid(caller)
          \/ ReadCached(caller)
          \/ FreshSearch(caller)
          \/ WriteCache(caller)

ConcurrentSpec == Init /\ [][ConcurrentNext]_vars

\* C21: concurrent calls of search_courses on one agent have their accesses to the
\* cache serialized, so that no call fails, or returns an evicted entry, because
\* another call evicted or wrote the entry of the same key in between.
C21_CacheAccessSerialized ==
    \A caller \in Callers : calls[caller].outcome # "KeyError"

----------------------------------------------------------------------------
(* The searches of an outage, and the size of what a search returns. *)

\* the fetches of the call in progress have all failed
AllFetchesFailed ==
    /\ LogHas("fetch")
    /\ \A j \in 1..Len(log) : log[j].ev = "fetch" => log[j].error # "none"

\* a list of the 2 fallback courses and nothing else
FallbackOnly(lst) == Len(lst) = 2 /\ \A i \in 1..Len(lst) : IsFallback(lst[i])

\* C31: a search whose fetches all fail writes its result, the fallback courses
\* only, to the cache with the time of the write; a later search for the same key
\* less than 1 week after it returns that list and fetches nothing, and the
\* providers are fetched again for the key only once the entry has expired.
C31_OutageResultCached ==
    [][/\ (pc = "store" /\ pc' = "idle" /\ AllFetchesFailed)
          => /\ cache_key \in DOMAIN course_cache'
             /\ course_cache'[cache_key].timestamp = now
             /\ course_cache'[cache_key].courses = result'
             /\ FallbackOnly(result')
       /\ (pc = "valid" /\ pc' # "valid" /\ cache_key \in DOMAIN course_cache)
          => IF now - course_cache[cache_key].timestamp < Week
             THEN /\ pc' = "idle"
                  /\ result' = course_cache[cache_key].courses
                  /\ course_cache' = course_cache
                  /\ ~LogHas("fetch")'
             ELSE pc' = "youtube"
       /\ (pc = "idle" /\ pc' = "valid"
              /\ CacheKey(career', user_level') \in DOMAIN course_cache
              /\ now - course_cache[CacheKey(career', user_level')].timestamp <= Week)
          => course_cache' = course_cache
       /\ (pc = "valid" /\ pc' = "youtube")
          => ~(/\ cache_key \in DOMAIN course_cache
               /\ now - course_cache[cache_key].timestamp < Week)
      ]_vars

\* C31's case: a search, some days but less than a week after a search of an
\* outage wrote the fallback courses to the cache, has returned them from it.
C31_Witness ==
    /\ Returned("hit")
    /\ LastEvent.age \in 1..(Week - 1)
    /\ course_cache[cache_key].timestamp > 0
    /\ FallbackOnly(result)
    /\ result = course_cache[cache_key].courses

\* C32: a search that misses the cache gathers fewer than 20 courses from the
\* providers, so the fallback check adds the 2 fallback courses to the pool of
\* every such search before the ranking, and the search returns 2 to 5 courses.
C32_MissReturnsTwoToFive ==
    /\ pc = "fallback" => Len(all_courses) < MinCourses
    /\ LogHas("fallback") =>
          /\ Event("fallback").pool < MinCourses
          /\ Event("fallback").added = 2
    /\ pc = "rank" =>
          /\ Len(all_courses) = Event("fallback").pool + 2
          /\ IsFallback(all_courses[Len(all_courses) - 1])
          /\ IsFallback(all_courses[Len(all_courses)])
    /\ Returned("store") =>
          /\ Len(result) >= 2
          /\ Len(result) <= 5
          /\ Len(result) = Min(Event("fallback").pool + 2, TopN)

\* C32's case: a search that gathered the most courses a search can, 8, has had
\* the fallback courses added and has returned 5 courses.
C32_Witness ==
    /\ Returned("store")
    /\ Event("fallback").pool = 8
    /\ Event("fallback").added = 2
    /\ Event("rank").pool = 10
    /\ Len(result) = 5

----------------------------------------------------------------------------
(* The walk of an assessment through the tree. *)

\* the answers process_answer has accepted, one call of navigate_tree each
Answered == Cardinality(DOMAIN user_skills)

\* where 3 calls of navigate_tree lead from "Math"
WalkFromMath(r1, r2, r3) ==
    navigate_tree(navigate_tree(navigate_tree("Math", r1), r2), r3)

\* every career is where some 3 ratings lead
AllCareersReached ==
    \A label \in CareerLabels :
        \E r1, r2, r3 \in {10 * d : d \in 0..10} : WalkFromMath(r1, r2, r3) = label

\* C33: from "Math", whatever ratings in [0.0, 1.0] are given, the third call of
\* navigate_tree, and no earlier one, returns a career, one of the 12 careers of
\* the tree; every call moves on to a node not seen before, and each of the 12
\* careers is where some ratings lead.
C33_CareerAfterThreeCalls ==
    /\ Answered <= 3
    /\ Answered < 3 =>
          /\ screen = "question"
          /\ current_node \in DOMAIN tree
          /\ extract_skill_name(current_node) \notin DOMAIN user_skills
          /\ recommended_career = "None"
    /\ Answered = 3 =>
          /\ screen = "loading"
          /\ current_node \in CareerLabels
          /\ current_node \notin DOMAIN tree
          /\ recommended_career = current_node
    /\ Called =>
          /\ ValidRating(navigated.user_input)
          /\ navigated.returned # navigated.current_node
          /\ navigated.returned = current_node
    /\ (Answered = 0) = (current_node = "Math")
    /\ AllCareersReached

\* C33's case: three ratings below 0.4 have led from "Math" to the last career of
\* the tree.
C33_Witness ==
    /\ Answered = 3
    /\ \A skill \in DOMAIN user_skills : user_skills[skill] < 40
    /\ current_node = "Sales Assistant"
    /\ screen = "loading"

\* the answers are declared with strictly descending thresholds
DeclaredDescending(answers) ==
    \A i \in 1..(Len(answers) - 1) : answers[i].threshold > answers[i + 1].threshold

\* the answers whose threshold the rating meets
Qualifying(answers, r) == {i \in 1..Len(answers) : answers[i].threshold <= r}

\* the next of the answer with the largest threshold the rating meets
HighestQualifying(answers, r) ==
    LET best == CHOOSE i \in Qualifying(answers, r) :
                    \A j \in Qualifying(answers, r) :
                        answers[j].threshold <= answers[i].threshold
    IN  answers[best].next

\* C34: every node of the default tree declares its answers with strictly
\* descending thresholds, and on every node and rating in [0.0, 1.0] navigate_tree
\* returns the next of the answer with the largest threshold at most the rating.
C34_FirstMatchIsHighestThreshold ==
    /\ \A node \in DOMAIN tree : DeclaredDescending(tree[node].answers)
    /\ CalledOnNode =>
          LET answers == tree[navigated.current_node].answers
              r       == navigated.user_input
          IN  /\ Qualifying(answers, r) # {}
              /\ navigated.returned = HighestQualifying(answers, r)

\* C34's case: a call on "Math" with a rating that meets all three thresholds.
C34_Witness ==
    /\ CalledOnNode
    /\ navigated.current_node = "Math"
    /\ navigated.user_input = 85
    /\ Cardinality(Qualifying(tree["Math"].answers, 85)) = 3
    /\ navigated.returned = "Math_High"
====
